---- MODULE Spec2Model ----
(***************************************************************************)
(* Verification model of the enoki-jit runtime: the recorded/wavefront     *)
(* loop builder (struct Loop), the CPU parallel primitives and the         *)
(* evaluator.  Every operator that models code keeps the name the source   *)
(* gives it.                                                               *)
(***************************************************************************)
EXTENDS Integers, Sequences, FiniteSets, TLC

(***************************************************************************)
(* Bounds of the model.                                                    *)
(***************************************************************************)
\* Largest length of an array handed to a Loop.
MaxSize == 3
\* Largest bound L of the loop condition  x < L.
MaxLimit == 2
\* Largest number of read-backs of the results after a loop.
MaxReads == 2
\* Largest number of Loop::cond() calls made on one Loop object.
MaxCalls == 5
\* Largest number of elements handed to jitc_prefix_sum().
MaxScan == 5
\* Largest jitc_llvm_block_size.
MaxBlock == 2
\* Bits of the model's 32-bit integers; its 64-bit integers have twice as
\* many.
WordBits == 4

(***************************************************************************)
(* Program constants.                                                      *)
(***************************************************************************)
\* (uint32_t) -1, the "no watermark" value of m_se_offset.  The model keeps
\* side-effect offsets far below it, so any value above every reachable
\* offset stands for it.
NoOffset == 1000000

Max(a, b) == IF a > b THEN a ELSE b

RECURSIVE SumFn(_, _)
\* f[1] + ... + f[n]
SumFn(f, n) == IF n = 0 THEN 0 ELSE f[n] + SumFn(f, n - 1)

(***************************************************************************)
(* The variable table (state.variables).  A variable is a node of the      *)
(* computation graph: an operation with up to three dependencies, a        *)
(* literal, or evaluated data.  Identifiers are positions in the table; 0  *)
(* is "no variable".                                                       *)
(***************************************************************************)
NoLoopInfo == [cond |-> 0, in |-> << >>, out |-> << >>, se |-> << >>]

Variable(op, dep, lit, size) ==
    [op |-> op, dep |-> dep, lit |-> lit, size |-> size, data |-> << >>,
     ref_count_ext |-> 1, loop |-> NoLoopInfo]

jit_var_new(st, v) == Append(st, v)

jit_var_inc_ref_ext(st, id) ==
    IF id = 0 THEN st ELSE [st EXCEPT ![id].ref_count_ext = @ + 1]

jit_var_dec_ref_ext(st, id) ==
    IF id = 0 THEN st ELSE [st EXCEPT ![id].ref_count_ext = @ - 1]

VarSize(st, id) == IF id = 0 THEN 1 ELSE st[id].size

\* A new operation node over dependencies a, b, c (0: unused); its size is
\* the largest size of its operands (size-1 operands broadcast).
jit_var_new_op(st, op, a, b, c) ==
    jit_var_new(st, Variable(op, <<a, b, c>>, 0,
                 Max(VarSize(st, a), Max(VarSize(st, b), VarSize(st, c)))))

\* jit_var_new_placeholder(index, 0): an indirection to variable `index`.
jit_var_new_placeholder(st, index) ==
    jit_var_new(st, Variable("placeholder", <<index, 0, 0>>, 0, st[index].size))

(***************************************************************************)
(* The value of a variable in one lane.  env binds placeholders of a       *)
(* recorded loop to the loop state of the current iteration.               *)
(***************************************************************************)
EmptyEnv == << >>

\* Iterations a recorded loop node is unrolled for when it is evaluated.
LoopFuel == MaxLimit + 2

RECURSIVE Val(_, _, _, _)
RECURSIVE LoopIter(_, _, _, _, _)
RECURSIVE LoopAdd(_, _, _, _, _, _)

\* The loop-carried variable behind the body-entry placeholder b.
PhiOf(st, b) == st[b].dep[1]

IsPhi(st, p) == p # 0 /\ st[p].op = "placeholder"

LoopEnv(st, lp, s) ==
    LET n == Len(lp.in)
        bound == {lp.in[i] : i \in 1..n} \cup
                 {PhiOf(st, lp.in[i]) : i \in {j \in 1..n : IsPhi(st, PhiOf(st, lp.in[j]))}}
    IN  [p \in bound |-> s[CHOOSE i \in 1..n : lp.in[i] = p \/ PhiOf(st, lp.in[i]) = p]]

LoopInit(st, lp, l) ==
    [i \in 1..Len(lp.in) |->
        LET phi == PhiOf(st, lp.in[i])
        IN  IF IsPhi(st, phi) THEN Val(st, st[phi].dep[1], l, EmptyEnv)
                              ELSE Val(st, phi, l, EmptyEnv)]

Val(st, id, l, env) ==
    LET v == st[id]
    IN  CASE v.op = "data"        -> v.data[IF v.size = 1 THEN 1 ELSE l]
          [] v.op = "literal"     -> v.lit
          [] v.op = "arange"      -> l - 1
          [] v.op = "add"         -> Val(st, v.dep[1], l, env) + Val(st, v.dep[2], l, env)
          [] v.op = "lt"          -> IF Val(st, v.dep[1], l, env) < Val(st, v.dep[2], l, env)
                                     THEN 1 ELSE 0
          [] v.op = "select"      -> IF Val(st, v.dep[1], l, env) = 1
                                     THEN Val(st, v.dep[2], l, env)
                                     ELSE Val(st, v.dep[3], l, env)
          [] v.op = "placeholder" -> IF id \in DOMAIN env THEN env[id]
                                     ELSE Val(st, v.dep[1], l, env)
          [] v.op = "loop_out"    ->
                LoopIter(st, v.dep[1], l, LoopInit(st, st[v.dep[1]].loop, l), LoopFuel)[v.lit]
          [] OTHER                -> 0

\* The loop state of lane l when the recorded loop `lid` ends, from state s.
LoopIter(st, lid, l, s, fuel) ==
    LET lp  == st[lid].loop
        env == LoopEnv(st, lp, s)
    IN  IF fuel = 0 \/ Val(st, lp.cond, l, env) # 1 THEN s
        ELSE LoopIter(st, lid, l,
                      [i \in 1..Len(lp.out) |-> Val(st, lp.out[i], l, env)], fuel - 1)

\* What the scatter-add `sid` adds to target[i] in lane l.
ScatterAdd(st, sid, l, env, i) ==
    LET v == st[sid]
    IN  IF /\ (v.dep[3] = 0 \/ Val(st, v.dep[3], l, env) = 1)
           /\ Val(st, v.dep[2], l, env) = i
        THEN Val(st, v.dep[1], l, env) ELSE 0

\* What the side effects attached to the recorded loop `lid` add to
\* target[i] in lane l: once per iteration in which the lane's mask is true.
LoopAdd(st, lid, l, s, fuel, i) ==
    LET lp  == st[lid].loop
        env == LoopEnv(st, lp, s)
    IN  IF fuel = 0 \/ Val(st, lp.cond, l, env) # 1 THEN 0
        ELSE SumFn([k \in 1..Len(lp.se) |-> ScatterAdd(st, lp.se[k], l, env, i)], Len(lp.se))
             + LoopAdd(st, lid, l,
                       [k \in 1..Len(lp.out) |-> Val(st, lp.out[k], l, env)], fuel - 1, i)

\* What the side-effect variable e adds to target[i], over all its lanes.
SideEffectAdd(st, e, i) ==
    LET n == st[e].size
    IN  IF st[e].op = "scatter"
        THEN SumFn([l \in 1..n |-> ScatterAdd(st, e, l, EmptyEnv, i)], n)
        ELSE IF st[e].op = "loop"
        THEN SumFn([l \in 1..n |->
                      LoopAdd(st, e, l, LoopInit(st, st[e].loop, l), LoopFuel, i)], n)
        ELSE 0

(***************************************************************************)
(* State.                                                                  *)
(***************************************************************************)
VARIABLES
    var,            \* state.variables: the variable table
    slot,           \* the index of each array the user program holds
    loop,           \* the members of the Loop object
    alive,          \* whether the Loop object exists
    flags,          \* the runtime flags (jit_flag / jit_set_flag)
    side_effects,   \* ts->side_effects: variables with pending side effects
    mask_stack,     \* the mask stack (jit_var_mask_push / jit_var_mask_pop)
    scheduled,      \* ts->scheduled
    target,         \* the buffer the loop body scatters into
    jit,            \* how often the Loop called each runtime entry point
    err,            \* the exception the last call raised ("none": it returned)
    ret,            \* what the last Loop::cond() returned
    pc,             \* where the user program is
    cfg,            \* the user program: loop bound, side effect, variables
    reads,          \* read-backs of the results so far
    result,         \* the results read back, per run of the program
    hist,           \* what happened in this run of the program
    mem,            \* host memory: the buffers of the parallel primitives
    tasks,          \* the thread's chain of submitted tasks, oldest first
    unit_done,      \* the work units of the oldest task that have run
    released,       \* the buffers handed to jitc_free()
    scan,           \* the jitc_prefix_sum() call under study
    call,           \* the call of another parallel primitive under study
    kcache,         \* the kernel caches and the launch in progress
    locks,          \* the threads and the mutexes they contend for
    evalq,          \* an evaluation: its schedule, groups and outcome
    cpu             \* the task graph of the thread pool of the CPU backend

scanVars == <<mem, tasks, unit_done, released, scan>>

restVars == <<kcache, locks, evalq, cpu>>

otherVars == <<call, restVars>>

loopVars == <<var, slot, loop, alive, flags, side_effects, mask_stack, scheduled,
              target, jit, err, ret, pc, cfg, reads, result, hist>>

Slots == {"x", "y", "z"}
SlotSeq == <<"x", "y", "z">>
Range(q) == {q[i] : i \in DOMAIN q}

\* Indices every scatter of the program stays within.
TargetLen == MaxSize + MaxLimit + 2

(***************************************************************************)
(* The state a call works on, and its commit.                              *)
(***************************************************************************)
World ==
    [var |-> var, slot |-> slot, loop |-> loop, flags |-> flags,
     side_effects |-> side_effects, mask_stack |-> mask_stack,
     scheduled |-> scheduled, target |-> target, jit |-> jit,
     err |-> "none", ret |-> ret]

Commit(w) ==
    /\ var' = w.var
    /\ slot' = w.slot
    /\ loop' = w.loop
    /\ flags' = w.flags
    /\ side_effects' = w.side_effects
    /\ mask_stack' = w.mask_stack
    /\ scheduled' = w.scheduled
    /\ target' = w.target
    /\ jit' = w.jit
    /\ err' = w.err
    /\ ret' = w.ret
    /\ UNCHANGED <<scanVars, otherVars>>

\* jit_raise(): the exception leaves the call; what was written stays written.
jit_raise(w, what) == [w EXCEPT !.err = what]

(***************************************************************************)
(* Runtime entry points the loop builder calls.                            *)
(***************************************************************************)
jit_set_flag(w, flag, value) ==
    [w EXCEPT !.flags[flag] = value, !.jit.set_flag = @ + 1]

\* jit_var_schedule(): literals and evaluated variables need no evaluation.
jit_var_schedule(w, id) ==
    IF id = 0 \/ w.var[id].op \in {"literal", "data"} THEN w
    ELSE [w EXCEPT !.scheduled = @ \cup {id}]

jit_var_mask_push(w, id) ==
    [w EXCEPT !.mask_stack = Append(@, id), !.jit.mask_push = @ + 1,
              !.var = jit_var_inc_ref_ext(@, id)]

jit_var_mask_pop(w) ==
    IF w.mask_stack = << >> THEN [w EXCEPT !.jit.mask_pop = @ + 1]
    ELSE [w EXCEPT !.mask_stack = SubSeq(@, 1, Len(@) - 1), !.jit.mask_pop = @ + 1,
                   !.var = jit_var_dec_ref_ext(@, w.mask_stack[Len(w.mask_stack)])]

\* The mask that scatters recorded now are guarded by (0: none).
MaskTop(w) == IF w.mask_stack = << >> THEN 0 ELSE w.mask_stack[Len(w.mask_stack)]

\* jit_side_effects_scheduled(): the side-effect watermark.
jit_side_effects_scheduled(w) == Len(w.side_effects)

RECURSIVE DecRefAll(_, _)
DecRefAll(st, ids) ==
    IF ids = << >> THEN st ELSE DecRefAll(jit_var_dec_ref_ext(st, Head(ids)), Tail(ids))

RECURSIVE MaxSizeOf(_, _)
\* The largest size among the variables ids (1 when there are none).
MaxSizeOf(st, ids) ==
    IF ids = << >> THEN 1 ELSE Max(st[Head(ids)].size, MaxSizeOf(st, Tail(ids)))

\* jit_side_effects_rollback(): drop the side effects scheduled since the
\* watermark.
jit_side_effects_rollback(w, offset) ==
    LET n    == Len(w.side_effects)
        keep == IF offset < n THEN offset ELSE n
    IN  [w EXCEPT !.side_effects = SubSeq(@, 1, keep),
                  !.var = DecRefAll(@, SubSeq(w.side_effects, keep + 1, n)),
                  !.jit.rollback = @ + 1,
                  !.jit.rollback_arg = offset]

\* A faulty reduction that asks for every lane.
jit_var_any_all_lanes(w, id) ==
    \A l \in 1..w.var[id].size : Val(w.var, id, l, EmptyEnv) = 1

\* jit_var_any(): is the (evaluated) mask true in some lane?
jit_var_any(w, id) ==
    \E l \in 1..w.var[id].size : Val(w.var, id, l, EmptyEnv) = 1

\* jit_var_loop(): one loop node with inputs `in` (the body-entry
\* placeholders), outputs `out` (the body-exit variables), the mask `cond`
\* and the side effects scheduled since se_offset, which move from the
\* thread's list into the node.  Returns the world and the identifiers of the
\* loop's results.
jit_var_loop(w, cond, n, in, out, se_offset) ==
    LET len  == Len(w.side_effects)
        se   == IF se_offset <= len THEN SubSeq(w.side_effects, se_offset + 1, len)
                ELSE << >>
        kept == IF se_offset <= len THEN SubSeq(w.side_effects, 1, se_offset)
                ELSE w.side_effects
        lid  == Len(w.var) + 1
        ins  == SubSeq(in, 1, n)
        outs == SubSeq(out, 1, n)
        size == Max(VarSize(w.var, cond), MaxSizeOf(w.var, outs))
        node == [Variable("loop", <<cond, 0, 0>>, 0, size) EXCEPT
                    !.loop = [cond |-> cond, in |-> ins, out |-> outs, se |-> se],
                    !.ref_count_ext = IF se = << >> THEN 0 ELSE 1]
        st1  == jit_var_new(w.var, node)
        st2  == st1 \o [i \in 1..n |-> Variable("loop_out", <<lid, 0, 0>>, i, size)]
    IN  [w |-> [w EXCEPT !.var = st2,
                         !.side_effects = IF se = << >> THEN kept ELSE Append(kept, lid),
                         !.jit.loop = @ + 1],
         out |-> [i \in 1..n |-> lid + i]]

(***************************************************************************)
(* jit_eval(): evaluate what the thread has scheduled and apply its        *)
(* pending side effects; both lists are cleared.                           *)
(***************************************************************************)
\* Roots are skipped when nothing references them or they hold data already.
IsRoot(st, id) == st[id].ref_count_ext # 0 /\ st[id].op # "data"

Evaluated(st, id) ==
    [st[id] EXCEPT !.op = "data", !.dep = <<0, 0, 0>>,
                   !.data = [l \in 1..st[id].size |-> Val(st, id, l, EmptyEnv)]]

jit_eval(w) ==
    IF w.scheduled = {} /\ w.side_effects = << >> THEN w
    ELSE
    LET st    == w.var
        se    == w.side_effects
        roots == {id \in w.scheduled : IsRoot(st, id)}
        ses   == {k \in 1..Len(se) : IsRoot(st, se[k])}
        add(i) == SumFn([k \in 1..Len(se) |->
                           IF k \in ses THEN SideEffectAdd(st, se[k], i) ELSE 0], Len(se))
        \* the table after the evaluation, entry by entry
        new(id) == IF id \in roots THEN Evaluated(st, id)
                   ELSE IF id \in {se[k] : k \in ses}
                   THEN [st[id] EXCEPT !.ref_count_ext = @ - 1]
                   ELSE st[id]
    IN  [w EXCEPT
            !.var = SubSeq([id \in 1..Len(st) |-> new(id)], 1, Len(st)),
            !.target = [i \in DOMAIN w.target |-> w.target[i] + add(i)],
            !.scheduled = {},
            !.side_effects = << >>,
            !.jit.eval = @ + 1]

(***************************************************************************)
(* struct Loop.                                                            *)
(***************************************************************************)
\* The members after the constructor's initialiser list.  m_se_flag is not
\* initialised: it may hold any value.
Loop(record) ==
    [m_state |-> 0, m_se_offset |-> NoOffset, m_se_flag |-> {0, 1}, m_size |-> 0,
     m_record |-> record, m_index_p |-> << >>, m_index_in |-> << >>,
     m_index_body |-> << >>, m_index_out |-> << >>, m_cond |-> 0]

\* The size check of Loop::put().
put_raises(m_size, size) == m_size # 0 /\ size # 1 /\ size # m_size

\* Loop::put(value), value being the user array in slot s.
put(w, s) ==
    LET size == w.var[w.slot[s]].size
        w1   == [w EXCEPT !.loop.m_index_p = Append(@, s),
                          !.loop.m_index_in = Append(@, w.slot[s])]
    IN  IF put_raises(w.loop.m_size, size)
        THEN jit_raise(w1, "put")
        ELSE [w1 EXCEPT !.loop.m_size = Max(@, size)]

RECURSIVE step_from(_, _)
step_from(w, i) ==
    IF i > Len(w.loop.m_index_p) THEN w
    ELSE LET s     == w.loop.m_index_p[i]
             index == w.slot[s]
             next  == Len(w.var) + 1
             st1   == jit_var_new_placeholder(w.var, index)
         IN  step_from([w EXCEPT !.var = jit_var_dec_ref_ext(st1, index),
                                 !.slot[s] = next], i + 1)

\* Loop::step(): insert an indirection via placeholder variables.
step(w) == step_from(w, 1)

\* The identifiers the registered slots hold now.
CurrentIds(w) == [i \in 1..Len(w.loop.m_index_p) |-> w.slot[w.loop.m_index_p[i]]]

\* A faulty init() that reads the flag only after it has set it.
saved_se_flag_late(w) == 1

\* The value Loop::init() stores in m_se_flag.
saved_se_flag(w) == w.flags.PostponeSideEffects

\* Loop::init().
init(w) ==
    IF w.loop.m_state # 0 THEN jit_raise(w, "init")
    ELSE IF w.loop.m_record
    THEN LET w1 == step(w)
             w2 == [w1 EXCEPT !.loop.m_se_offset = jit_side_effects_scheduled(w1),
                              !.loop.m_se_flag = {saved_se_flag(w1)}]
             w3 == jit_set_flag(w2, "PostponeSideEffects", 1)
         IN  [w3 EXCEPT !.loop.m_state = 1]
    ELSE w

\* Assignment to the member m_cond: the new mask is referenced, the old one
\* released.
set_m_cond(w, id) ==
    [w EXCEPT !.var = jit_var_dec_ref_ext(jit_var_inc_ref_ext(@, id), w.loop.m_cond),
              !.loop.m_cond = id]

\* The select of Loop::cond_wavefront() (below, after two faulty variants
\* that swap its operands and that ignore the value before the body): lanes the previous mask enables take
\* the value after the body (i1), the others keep the value before it (i2).
wavefront_select_swapped(st, m_cond, i1, i2) ==
    jit_var_new_op(st, "select", m_cond, i2, i1)

wavefront_select_always(st, m_cond, i1, i2) ==
    jit_var_new_op(st, "select", m_cond, i1, i1)

wavefront_select(st, m_cond, i1, i2) == jit_var_new_op(st, "select", m_cond, i1, i2)

RECURSIVE mask_loop_variables(_, _)
mask_loop_variables(w, i) ==
    IF i > Len(w.loop.m_index_p) THEN w
    ELSE LET s   == w.loop.m_index_p[i]
             i1  == w.slot[s]
             i2  == w.loop.m_index_out[i]
             new == Len(w.var) + 1
             st1 == wavefront_select(w.var, w.loop.m_cond, i1, i2)
             st2 == jit_var_dec_ref_ext(jit_var_dec_ref_ext(st1, i1), i2)
         IN  mask_loop_variables([w EXCEPT !.var = st2, !.slot[s] = new], i + 1)

RECURSIVE ScheduleAll(_, _)
ScheduleAll(w, ids) ==
    IF ids = << >> THEN w ELSE ScheduleAll(jit_var_schedule(w, Head(ids)), Tail(ids))

RECURSIVE IncRefAll(_, _)
IncRefAll(st, ids) ==
    IF ids = << >> THEN st ELSE IncRefAll(jit_var_inc_ref_ext(st, Head(ids)), Tail(ids))

\* A faulty cond_wavefront() that does not push the mask.
wavefront_mask_push_missing(w, cond) == w

\* The mask pushed for the next iteration of a wavefront loop.
wavefront_mask_push(w, cond) == jit_var_mask_push(w, cond)

\* Loop::cond_wavefront(cond) up to its call of jit_eval(): the loop
\* variables are masked, the mask of the last iteration is popped, and the
\* loop state is scheduled.
wavefront_prepare(w, cond) ==
    LET w1 == IF w.loop.m_cond # 0
              THEN LET a == mask_loop_variables(w, 1)
                       b == jit_var_mask_pop(a)
                       c == [b EXCEPT !.loop.m_index_out = << >>]
                   IN  set_m_cond(c, 0)
              ELSE w
    IN  ScheduleAll(jit_var_schedule(w1, cond), CurrentIds(w1))

\* Loop::cond_wavefront(cond).
cond_wavefront(w, cond) ==
    LET w3 == jit_eval(wavefront_prepare(w, cond))
    IN  IF jit_var_any(w3, cond)
        THEN LET a == set_m_cond(w3, cond)
                 b == wavefront_mask_push(a, cond)
             IN  [b EXCEPT !.var = IncRefAll(@, CurrentIds(b)),
                           !.loop.m_index_out = @ \o CurrentIds(b),
                           !.ret = TRUE]
        ELSE [w3 EXCEPT !.ret = FALSE]

RECURSIVE write_back(_, _, _)
\* The last loop of cond_record(), case 2: release the placeholder in each
\* slot and store the loop's result there.
write_back(w, out, i) ==
    IF i > Len(w.loop.m_index_p) THEN w
    ELSE LET s == w.loop.m_index_p[i]
         IN  write_back([w EXCEPT !.var = jit_var_dec_ref_ext(@, w.slot[s]),
                                  !.slot[s] = out[i]], out, i + 1)

\* The side-effect offset Loop::cond_record() hands to jit_var_loop().
loop_se_offset(lp) == lp.m_se_offset

\* A faulty state counter that skips a state.
next_state_skip(m_state) == m_state + 2

\* m_state++ in the switch of Loop::cond_record().
next_state(m_state) == m_state + 1

\* Loop::cond_record(cond).  se_flag is the value read from m_se_flag.
cond_record(w, cond, se_flag) ==
    LET state == w.loop.m_state
        w0    == [w EXCEPT !.loop.m_state = next_state(@)]
    IN  CASE state = 0 -> jit_raise(w0, "cond: must be initialized first")
          [] state = 1 ->
                LET a == step(set_m_cond(w0, cond))
                IN  [a EXCEPT !.loop.m_index_body = @ \o CurrentIds(a), !.ret = TRUE]
          [] state = 2 ->
                LET a == [w0 EXCEPT !.loop.m_index_out = @ \o CurrentIds(w0)]
                    r == jit_var_loop(a, a.loop.m_cond, Len(a.loop.m_index_p),
                                      a.loop.m_index_body, a.loop.m_index_out,
                                      loop_se_offset(a.loop))
                    b == [r.w EXCEPT !.loop.m_index_out = r.out]
                    c == write_back(b, b.loop.m_index_out, 1)
                    d == jit_set_flag(c, "PostponeSideEffects", se_flag)
                IN  [d EXCEPT !.ret = FALSE]
          [] OTHER -> jit_raise(w0, "cond: invalid state")

\* Loop::cond(cond).
cond(w, c, se_flag) ==
    IF w.loop.m_record THEN cond_record(w, c, se_flag) ELSE cond_wavefront(w, c)

\* A faulty destructor that never takes the branch.
dtor_never_rolls_back(lp) == FALSE

\* Whether ~Loop() takes its "error while recording" branch.
dtor_rolls_back(lp) == lp.m_record /\ lp.m_se_offset # NoOffset

\* Loop::~Loop(), followed by the destruction of the member m_cond.
dtor(w, se_flag) ==
    LET w1 == IF dtor_rolls_back(w.loop)
              THEN jit_set_flag(jit_side_effects_rollback(w, w.loop.m_se_offset),
                                "PostponeSideEffects", se_flag)
              ELSE w
        w2 == IF ~w.loop.m_record /\ Len(w.loop.m_index_out) > 0
              THEN jit_var_mask_pop([w1 EXCEPT !.var = DecRefAll(@, w.loop.m_index_out)])
              ELSE w1
        w3 == IF w.loop.m_state # 0 /\ w.loop.m_state # 3
              THEN [w2 EXCEPT !.jit.warn = @ + 1]
              ELSE w2
    IN  [w3 EXCEPT !.var = jit_var_dec_ref_ext(@, w.loop.m_cond)]

(***************************************************************************)
(* The user program, after the tests of the loop builder:                  *)
(*                                                                         *)
(*     x = arange(sx); y = zero(sy); z = full(1, sz); target = zero(..)    *)
(*     Loop loop("MyLoop", x, y, z);          // or put() ... init()       *)
(*     while (loop.cond(x < L)) {                                          *)
(*         scatter_reduce(Add, target, 1, x); // or (target, 2, 2), or none*)
(*         y += x; x += 1; z += 1;            // the registered variables  *)
(*     }                                                                   *)
(*     schedule (or not); read the results back                            *)
(*                                                                         *)
(* run once with LoopRecord set and once with it cleared.                  *)
(***************************************************************************)
Variants == {"none", "index_x", "const"}

\* The user replaces the array in slot s by a new variable.
assign(w, s, st, id) ==
    [w EXCEPT !.var = jit_var_dec_ref_ext(st, w.slot[s]), !.slot[s] = id]

\* s += t for user arrays.
add_assign(w, s, t) ==
    assign(w, s, jit_var_new_op(w.var, "add", w.slot[s], w.slot[t], 0), Len(w.var) + 1)

\* scatter_reduce(ReduceOp::Add, target, value, index): a side-effect
\* variable guarded by the top of the mask stack.
scatter_reduce(w, value, index) ==
    LET m    == MaskTop(w)
        size == Max(VarSize(w.var, value), Max(VarSize(w.var, index), VarSize(w.var, m)))
    IN  [w EXCEPT !.var = jit_var_new(@, Variable("scatter", <<value, index, m>>, 0, size)),
                  !.side_effects = Append(@, Len(w.var) + 1)]

\* The loop body, for the variables regs the program registered.
Body(w, regs, v) ==
    LET w1 == CASE v = "index_x" -> scatter_reduce(w, w.slot["one"], w.slot["x"])
                [] v = "const"   -> scatter_reduce(w, w.slot["two"], w.slot["two"])
                [] OTHER         -> w
        w2 == IF "y" \in regs THEN add_assign(w1, "y", "x") ELSE w1
        w3 == add_assign(w2, "x", "one")
    IN  IF "z" \in regs THEN add_assign(w3, "z", "one") ELSE w3

\* The arrays of a run: x = arange(sx), y = zero(sy), z = full(1, sz) and the
\* literals 1, 2, L and the last index of the target the program uses.
Arrays(sx, sy, sz, limit) ==
    << Variable("arange", <<0, 0, 0>>, 0, sx),
       Variable("literal", <<0, 0, 0>>, 0, sy),
       Variable("literal", <<0, 0, 0>>, 1, sz),
       Variable("literal", <<0, 0, 0>>, 1, 1),
       Variable("literal", <<0, 0, 0>>, 2, 1),
       Variable("literal", <<0, 0, 0>>, limit, 1),
       Variable("literal", <<0, 0, 0>>, TargetLen - 1, 1) >>

ArraySlots(base) ==
    [s \in Slots \cup {"one", "two", "lim", "last"} |->
        base + (CASE s = "x" -> 1 [] s = "y" -> 2 [] s = "z" -> 3
                  [] s = "one" -> 4 [] s = "two" -> 5 [] s = "lim" -> 6
                  [] OTHER -> 7)]

\* The program before the loop: the arrays and, when pre = 1, a scatter-add of
\* 1 into the last element of the target that is still pending when the loop
\* is constructed.
Prologue(sizes, limit, pre) ==
    LET w == [var |-> Arrays(sizes[1], sizes[2], sizes[3], limit),
              slot |-> ArraySlots(0), side_effects |-> << >>, mask_stack |-> << >>]
    IN  IF pre = 1 THEN scatter_reduce(w, w.slot["one"], w.slot["last"]) ELSE w

NoCalls == [set_flag |-> 0, mask_push |-> 0, mask_pop |-> 0, rollback |-> 0,
            rollback_arg |-> 0, loop |-> 0, eval |-> 0, warn |-> 0]

NewHist(run) ==
    [run |-> run, clean |-> TRUE, regs |-> << >>, puts |-> << >>, put_failed |-> FALSE,
     inited |-> FALSE, se_offset |-> 0, se_flag |-> 0, calls |-> 0, bodies |-> 0,
     sched |-> FALSE, dtor_state |-> 0, dtors |-> 0]

NoResult == [done |-> FALSE, record |-> FALSE, regs |-> {}, val |-> << >>, target |-> << >>]

\* The state before a program runs: the arrays exist, no Loop does.
Start(sx, sy, sz, args, limit, rec, pse, pre, se) ==
    /\ var = Prologue(<<sx, sy, sz>>, limit, pre).var
    /\ slot = ArraySlots(0)
    /\ loop = Loop(FALSE)
    /\ alive = FALSE
    /\ flags = [LoopRecord |-> rec, PostponeSideEffects |-> pse]
    /\ side_effects = Prologue(<<sx, sy, sz>>, limit, pre).side_effects
    /\ mask_stack = << >>
    /\ scheduled = {}
    /\ target = [i \in 0..(TargetLen - 1) |-> 0]
    /\ jit = NoCalls
    /\ err = "none"
    /\ ret = FALSE
    /\ pc = "start"
    /\ cfg = [sizes |-> <<sx, sy, sz>>, args |-> args, limit |-> limit, pre |-> pre,
              se |-> se]
    /\ reads = 0
    /\ result = [r \in 1..2 |-> NoResult]
    /\ hist = NewHist(1)

\* No parallel primitive is running.
PoolIdle ==
    /\ mem = << >>
    /\ tasks = << >>
    /\ unit_done = {}
    /\ released = {}
    /\ scan = [state |-> "none"]

\* No kernel is launched, no thread contends, nothing is evaluated.
RestIdle ==
    /\ kcache = [state |-> "none"]
    /\ locks = [state |-> "none"]
    /\ evalq = [state |-> "none"]
    /\ cpu = [state |-> "none"]

\* Nothing else of the runtime is in use.
OthersIdle ==
    /\ call = [state |-> "none"]
    /\ RestIdle

\* The tests: Loop loop("MyLoop", x, ...) over the first `args` arrays, first
\* with LoopRecord cleared (i = 0), then with it set.
InitLoop ==
    \E sx \in 1..MaxSize, sy \in 1..MaxSize, sz \in 1..MaxSize, args \in 1..3,
       limit \in 0..MaxLimit, pse \in {0, 1}, pre \in {0, 1} :
        /\ (args \in 1..2 => sz = 1)
        /\ (args = 1 => sy = 1)
        /\ Start(sx, sy, sz, args, limit, 0, pse, pre, "unset")
        /\ PoolIdle
        /\ OthersIdle

\* A program that drives the builder call by call: Loop loop("MyLoop"), then
\* put(), init() and cond() in any order.
InitBuilder ==
    \E sx \in 1..MaxSize, sy \in 1..MaxSize, sz \in 1..MaxSize,
       rec \in {0, 1}, pse \in {0, 1} :
        /\ Start(sx, sy, sz, 0, MaxLimit, rec, pse, 1, "index_x")
        /\ PoolIdle
        /\ OthersIdle

\* Loop loop("MyLoop");
Construct ==
    /\ pc = "start"
    /\ cfg.args = 0
    /\ Commit([World EXCEPT !.loop = Loop(flags.LoopRecord = 1)])
    /\ alive' = TRUE
    /\ pc' = "setup"
    /\ UNCHANGED <<cfg, reads, result, hist>>

RECURSIVE put_all(_, _)
\* (put(args), ...): the first exception ends the fold.
put_all(w, args) ==
    IF args = << >> \/ w.err # "none" THEN w ELSE put_all(put(w, Head(args)), Tail(args))

\* Loop loop("MyLoop", args...): when a put() raises, the constructor is left
\* and no object (hence no destructor call) remains.
ConstructArgs ==
    /\ pc = "start"
    /\ cfg.args > 0
    /\ LET w0 == [World EXCEPT !.loop = Loop(flags.LoopRecord = 1)]
           w1 == put_all(w0, SubSeq(SlotSeq, 1, cfg.args))
           ok == w1.err = "none"
           w2 == IF ok THEN init(w1) ELSE w1
       IN  /\ Commit(w2)
           /\ alive' = ok
           /\ pc' = IF ok THEN "loop" ELSE "end"
           /\ hist' = [hist EXCEPT !.regs = IF ok THEN w2.loop.m_index_p ELSE @,
                                   !.puts = [i \in 1..Len(w1.loop.m_index_p) |->
                                               cfg.sizes[i]],
                                   !.clean = ok,
                                   !.inited = ok,
                                   !.se_offset = Len(side_effects),
                                   !.se_flag = flags.PostponeSideEffects]
    /\ UNCHANGED <<cfg, reads, result>>

SizeOfSlot(s) == var[slot[s]].size

\* loop.put(s);
Put(s) ==
    /\ pc = "setup"
    /\ alive
    /\ loop.m_state = 0
    /\ s \notin Range(loop.m_index_p)
    /\ LET w == put(World, s)
       IN  /\ Commit(w)
           /\ hist' = [hist EXCEPT !.puts = Append(@, SizeOfSlot(s)),
                                   !.regs = IF w.err = "none" THEN Append(@, s) ELSE @,
                                   !.put_failed = @ \/ w.err # "none",
                                   !.clean = @ /\ w.err = "none"]
    /\ UNCHANGED <<alive, pc, cfg, reads, result>>

\* loop.init();
InitCall ==
    /\ pc \in {"setup", "loop"}
    /\ alive
    /\ ~hist.put_failed
    /\ LET w == init(World)
       IN  /\ Commit(w)
           /\ pc' = IF w.err = "none" THEN "loop" ELSE pc
           /\ hist' = [hist EXCEPT
                          !.clean = @ /\ w.err = "none" /\ ~hist.inited /\ pc = "setup",
                          !.inited = @ \/ w.err = "none",
                          !.se_offset = IF w.err = "none" /\ ~hist.inited
                                        THEN Len(side_effects) ELSE @,
                          !.se_flag = IF w.err = "none" /\ ~hist.inited
                                      THEN flags.PostponeSideEffects ELSE @]
    /\ UNCHANGED <<alive, cfg, reads, result>>

\* loop.cond(x < L): the mask is a temporary that is released after the call.
\* The variables of the loop include x, so the mask has a size that fits
\* them; a wavefront loop works on the arrays themselves and may also have
\* no variable at all.
CondAt(pcs) ==
    /\ pc \in pcs
    /\ alive
    /\ ~hist.put_failed
    /\ "x" \in Range(loop.m_index_p) \/ (~loop.m_record /\ loop.m_index_p = << >>)
    /\ hist.calls < MaxCalls
    /\ \E se_flag \in loop.m_se_flag :
        LET mask == Len(var) + 1
            w0   == [World EXCEPT !.var = jit_var_new_op(@, "lt", slot["x"], slot["lim"], 0)]
            w1   == cond(w0, mask, se_flag)
            w2   == [w1 EXCEPT !.var = jit_var_dec_ref_ext(@, mask)]
        IN  /\ Commit(w2)
            /\ pc' = IF w2.err # "none" THEN pc ELSE IF w2.ret THEN "body" ELSE "after"
            /\ hist' = [hist EXCEPT !.calls = @ + 1,
                                    !.clean = @ /\ w2.err = "none" /\ pc = "loop"]
    /\ UNCHANGED <<alive, cfg, reads, result>>

\* The loop header of the program.
CondCall == CondAt({"loop"})

\* cond() called before init() or after the loop has ended.
CondMisuse == CondAt({"setup", "after"})

\* loop.cond(x < L) of a wavefront loop in which jit_eval() raises (a
\* compiler or driver error): the exception leaves cond().
CondFaults ==
    /\ pc \in {"setup", "loop"}
    /\ alive
    /\ ~loop.m_record
    /\ ~hist.put_failed
    /\ "x" \in Range(loop.m_index_p) \/ loop.m_index_p = << >>
    /\ hist.calls < MaxCalls
    /\ LET mask == Len(var) + 1
           w0   == [World EXCEPT !.var = jit_var_new_op(@, "lt", slot["x"], slot["lim"], 0)]
           w1   == jit_raise(wavefront_prepare(w0, mask), "eval")
       IN  Commit([w1 EXCEPT !.var = jit_var_dec_ref_ext(@, mask)])
    /\ hist' = [hist EXCEPT !.calls = @ + 1, !.clean = FALSE]
    /\ UNCHANGED <<alive, pc, cfg, reads, result>>

\* One execution of the loop body.
BodyStep ==
    /\ pc = "body"
    /\ \E v \in (IF cfg.se = "unset" THEN Variants ELSE {cfg.se}) :
        /\ Commit(Body(World, Range(loop.m_index_p), v))
        /\ cfg' = [cfg EXCEPT !.se = v]
    /\ pc' = "loop"
    /\ hist' = [hist EXCEPT !.bodies = @ + 1]
    /\ UNCHANGED <<alive, reads, result>>

\* The Loop object leaves its scope: ~Loop() runs.
Destructor(next_pc, clean) ==
    /\ alive
    /\ \E se_flag \in loop.m_se_flag :
            Commit([dtor(World, se_flag) EXCEPT !.loop = Loop(FALSE)])
    /\ alive' = FALSE
    /\ pc' = next_pc
    /\ hist' = [hist EXCEPT !.clean = @ /\ clean, !.dtor_state = loop.m_state,
                            !.dtors = @ + 1]
    /\ UNCHANGED <<cfg, reads, result>>

\* A fault (an exception in user code) ends the program before the loop is
\* finished; the stack is unwound.
Fault ==
    /\ pc \in {"setup", "loop", "body"}
    /\ Destructor("end", FALSE)

\* The same once the loop has ended or cond() has raised after its end.
Abandon ==
    /\ pc = "after"
    /\ Destructor("end", FALSE)

\* The loop has ended; the Loop object leaves its scope, before or after the
\* results are read.
Destroy ==
    /\ pc = "after"
    /\ Destructor("after", TRUE)

\* jit_var_schedule() on each loop variable (the tests' j == 0).
Schedule ==
    /\ pc = "after"
    /\ reads = 0
    /\ ~hist.sched
    /\ Commit(ScheduleAll(World, [i \in 1..Len(hist.regs) |-> slot[hist.regs[i]]]))
    /\ hist' = [hist EXCEPT !.sched = TRUE]
    /\ UNCHANGED <<alive, pc, cfg, reads, result>>

RECURSIVE read_all(_, _)
\* value.str() for each array: schedule it, evaluate, read.
read_all(w, ids) ==
    IF ids = << >> THEN w
    ELSE read_all(jit_eval(jit_var_schedule(w, Head(ids))), Tail(ids))

\* Lane l of an array read back (a size-1 array is read by every lane).
Lane(w, id, l) == Val(w.var, id, IF w.var[id].size = 1 THEN 1 ELSE l, EmptyEnv)

\* The results are read back: the loop variables, then the target.
ReadBack ==
    /\ pc = "after"
    /\ reads < MaxReads
    /\ LET ids == [i \in 1..Len(hist.regs) |-> slot[hist.regs[i]]]
           w0  == read_all(World, ids)
           w   == jit_eval(w0)
           n   == MaxSizeOf(w.var, ids)
       IN  /\ Commit(w)
           /\ result' = [result EXCEPT ![hist.run] =
                            [done   |-> TRUE,
                             record |-> flags.LoopRecord = 1,
                             regs   |-> Range(hist.regs),
                             val    |-> [s \in Range(hist.regs) |->
                                            [l \in 1..n |-> Lane(w, w.slot[s], l)]],
                             target |-> w.target]]
    /\ reads' = reads + 1
    /\ UNCHANGED <<alive, pc, cfg, hist>>

\* The test's outer loop: the same program again in the other mode, with
\* fresh arrays and a fresh target (the arrays of the first run are gone).
NextRun ==
    /\ pc = "after"
    /\ ~alive
    /\ reads >= 1
    /\ hist.run = 1
    /\ hist.clean
    /\ side_effects = << >> /\ scheduled = {} /\ mask_stack = << >>
    /\ Commit([World EXCEPT
                !.var = Prologue(cfg.sizes, cfg.limit, cfg.pre).var,
                !.side_effects = Prologue(cfg.sizes, cfg.limit, cfg.pre).side_effects,
                !.slot = ArraySlots(0),
                !.loop = Loop(FALSE),
                !.flags.LoopRecord = 1 - @,
                !.target = [i \in DOMAIN target |-> 0],
                !.jit = NoCalls,
                !.ret = FALSE])
    /\ alive' = FALSE
    /\ pc' = "start"
    /\ reads' = 0
    /\ hist' = NewHist(2)
    /\ UNCHANGED <<cfg, result>>

NextLoop ==
    \/ ConstructArgs
    \/ CondCall
    \/ BodyStep
    \/ Fault
    \/ Destroy
    \/ Schedule
    \/ ReadBack
    \/ NextRun

NextBuilder ==
    \/ Construct
    \/ \E s \in Slots : Put(s)
    \/ InitCall
    \/ CondCall
    \/ CondMisuse
    \/ CondFaults
    \/ BodyStep
    \/ Fault
    \/ Abandon

vars == <<loopVars, scanVars, otherVars>>

\* The loop builder driven by the test program.
Spec == InitLoop /\ [][NextLoop]_vars

\* The loop builder driven call by call.
SpecBuilder == InitBuilder /\ [][NextBuilder]_vars

(***************************************************************************)
(* The CPU path of jitc_prefix_sum(): the host submits tasks, each a number *)
(* of work units the pool runs in any order; a task starts when the task   *)
(* submitted before it has finished.                                       *)
(***************************************************************************)
VarTypes == {"UInt32", "UInt64"}

\* Unsigned arithmetic of the element type T is arithmetic modulo this.
Modulus(vt) == IF vt = "UInt64" THEN 2 ^ (2 * WordBits) ELSE 2 ^ WordBits

\* Inputs: small values and the largest one, so that sums wrap around.
Elems(vt) == {1, 2, Modulus(vt) - 1}

\* pool_size(): one worker, or several.
PoolSizes == {1, 2}

Min(a, b) == IF a < b THEN a ELSE b

RECURSIVE sum_reduce_1_loop(_, _, _, _, _, _)
sum_reduce_1_loop(m, M, i, end, in, accum) ==
    IF i = end THEN accum
    ELSE sum_reduce_1_loop(m, M, i + 1, end, in, (accum + m[in][i + 1]) % M)

\* sum_reduce_1<T>(): the sum of block [start, end) goes to scratch[index].
sum_reduce_1(m, vt, start, end, in, index, scratch) ==
    [m EXCEPT ![scratch][index + 1] = sum_reduce_1_loop(m, Modulus(vt), start, end, in, 0)]

RECURSIVE sum_reduce_2_loop(_, _, _, _, _, _, _, _)
\* The loops of sum_reduce_2<T>(): in[i] is read before out[i] is written.
sum_reduce_2_loop(m, M, i, end, in, out, accum, exclusive) ==
    IF i = end THEN m
    ELSE LET value == m[in][i + 1]
             next  == (accum + value) % M
         IN  sum_reduce_2_loop([m EXCEPT ![out][i + 1] = IF exclusive THEN accum ELSE next],
                               M, i + 1, end, in, out, next, exclusive)

\* A faulty phase 2 that ignores the scanned block sums.
sum_reduce_2_no_base(m, vt, start, end, in, out, index, scratch, exclusive) ==
    sum_reduce_2_loop(m, Modulus(vt), start, end, in, out, 0, exclusive)

\* sum_reduce_2<T>(): scan block [start, end) from the base scratch[index]
\* (scratch = 0 is the null pointer: base 0).
sum_reduce_2(m, vt, start, end, in, out, index, scratch, exclusive) ==
    sum_reduce_2_loop(m, Modulus(vt), start, end, in, out,
                      IF scratch # 0 THEN m[scratch][index + 1] ELSE 0, exclusive)

\* jitc_malloc(): a new buffer of n elements with arbitrary contents.
jitc_malloc(s, n, garbage) == [s EXCEPT !.mem = Append(@, [i \in 1..n |-> garbage])]

\* jitc_free(): the buffer is released once the work submitted so far is done.
jitc_free(s, ptr) == IF ptr = 0 THEN s ELSE [s EXCEPT !.released = @ \cup {ptr}]

\* jitc_submit_cpu(): the task depends on jitc_task and becomes jitc_task.
jitc_submit_cpu(s, task) == [s EXCEPT !.tasks = Append(@, task)]

RECURSIVE jitc_prefix_sum(_, _, _, _, _, _, _)
\* jitc_prefix_sum(), CPU backend.  env: pool_size(), jitc_llvm_block_size and
\* what fresh memory holds.
jitc_prefix_sum(s, env, vt0, exclusive, in, size, out) ==
    IF size = 0 THEN s
    ELSE
    LET vt         == IF vt0 = "Int32" THEN "UInt32" ELSE vt0
        block_size == IF env.pool > 1 THEN env.block ELSE size
        blocks     == IF env.pool > 1 THEN (size + block_size - 1) \div block_size ELSE 1
        scratch    == IF blocks > 1 THEN Len(s.mem) + 1 ELSE 0
        task(phase) == [phase |-> phase, vt |-> vt, block_size |-> block_size,
                        size |-> size, in |-> in, out |-> out, scratch |-> scratch,
                        exclusive |-> exclusive, blocks |-> blocks]
        s1 == IF blocks > 1
              THEN jitc_prefix_sum(
                       jitc_submit_cpu(jitc_malloc(s, blocks, env.garbage), task(1)),
                       env, vt, TRUE, scratch, blocks, scratch)
              ELSE s
    IN  jitc_free(jitc_submit_cpu(s1, task(2)), scratch)

\* The program: jit_prefix_sum(vt, exclusive, in, size, out), out = in or a
\* buffer of its own.
InitScan ==
    /\ Start(1, 1, 1, 0, 0, 0, 0, 0, "unset")
    /\ \E vt \in VarTypes, exclusive \in BOOLEAN, size \in 1..MaxScan, alias \in BOOLEAN,
          pool \in PoolSizes, block \in 2..MaxBlock, garbage \in {0, 1} :
        /\ (pool = 1 => block = 2 /\ garbage = 0)
        /\ \E input \in [1..size -> Elems(vt)] :
            /\ scan = [state |-> "ready", vt |-> vt, exclusive |-> exclusive,
                       size |-> size, in |-> 1, out |-> IF alias THEN 1 ELSE 2,
                       pool |-> pool, block |-> block, garbage |-> garbage,
                       input |-> input]
            /\ mem = IF alias THEN <<input>> ELSE <<input, [i \in 1..size |-> garbage]>>
    /\ tasks = << >>
    /\ unit_done = {}
    /\ released = {}
    /\ OthersIdle

\* The host calls jitc_prefix_sum(): the tasks are submitted, none has run.
PrefixSumCall ==
    /\ scan.state = "ready"
    /\ LET s == jitc_prefix_sum([mem |-> mem, tasks |-> tasks, released |-> released],
                                [pool |-> scan.pool, block |-> scan.block,
                                 garbage |-> scan.garbage],
                                scan.vt, scan.exclusive, scan.in, scan.size, scan.out)
       IN  /\ mem' = s.mem
           /\ tasks' = s.tasks
           /\ released' = s.released
    /\ scan' = [scan EXCEPT !.state = "submitted"]
    /\ UNCHANGED <<unit_done, loopVars, otherVars>>

\* A worker runs one work unit of the oldest task: the lambda the task holds,
\* called with the unit's index.  The task ends with its last unit.
RunUnit ==
    /\ tasks # << >>
    /\ LET t == Head(tasks)
       IN  \E index \in (0..(t.blocks - 1)) \ unit_done :
            LET start == index * t.block_size
                end   == Min(start + t.block_size, t.size)
                last  == unit_done \cup {index} = 0..(t.blocks - 1)
            IN  /\ mem' = IF t.phase = 1
                          THEN sum_reduce_1(mem, t.vt, start, end, t.in, index, t.scratch)
                          ELSE sum_reduce_2(mem, t.vt, start, end, t.in, t.out, index,
                                            t.scratch, t.exclusive)
                /\ unit_done' = IF last THEN {} ELSE unit_done \cup {index}
                /\ tasks' = IF last THEN Tail(tasks) ELSE tasks
    /\ UNCHANGED <<released, scan, loopVars, otherVars>>

NextScan ==
    \/ PrefixSumCall
    \/ RunUnit

\* One call of the prefix sum and the pool that runs it.
SpecScan == InitScan /\ [][NextScan]_vars

\* Every task of the call has run.
ScanFinished == scan.state = "submitted" /\ tasks = << >>

\* C10: when the tasks of a CPU prefix sum over unsigned elements have run,
\* the exclusive scan has written out[0] = 0 and out[i+1] = out[i] + in[i] and
\* the inclusive scan out[i] = in[0] + ... + in[i], modulo 2^w, for every
\* size, with one block or several, and also when out is the buffer in.
PrefixSumCorrect ==
    ScanFinished =>
        LET out == mem[scan.out]
            a   == scan.input
            M   == Modulus(scan.vt)
        IN  /\ scan.exclusive =>
                /\ out[1] = 0
                /\ \A i \in 1..(scan.size - 1) : out[i + 1] = (out[i] + a[i]) % M
            /\ ~scan.exclusive =>
                \A i \in 1..scan.size : out[i] = SumFn(a, i) % M
            /\ scan.out # scan.in => mem[scan.in] = a

\* An in-place scan of MaxScan elements has run in blocks of two whose sums
\* were scanned in blocks again, and the total wrapped around.
BlockedScanInPlace ==
    /\ ScanFinished
    /\ scan.out = scan.in /\ scan.size = MaxScan /\ scan.pool > 1 /\ scan.block = 2
    /\ Len(mem) >= 3
    /\ SumFn(scan.input, scan.size) >= Modulus(scan.vt)

(***************************************************************************)
(* Reference semantics of the program: every lane runs the loop by itself. *)
(***************************************************************************)
\* The slots the constructor of the test program registers.
RegsOf == {SlotSeq[i] : i \in 1..cfg.args}

\* The number of lanes of the loop.
RefLanes == Max(cfg.sizes[1], Max(cfg.sizes[2], cfg.sizes[3]))

\* The loop variables of lane l before the loop (an array of size 1 is
\* broadcast).
RefStart(l) == [x |-> IF cfg.sizes[1] = 1 THEN 0 ELSE l - 1, y |-> 0, z |-> 1]

RefMask(s) == s.x < cfg.limit

RefBody(s, regs) ==
    [x |-> s.x + 1,
     y |-> IF "y" \in regs THEN s.y + s.x ELSE s.y,
     z |-> IF "z" \in regs THEN s.z + 1 ELSE s.z]

RECURSIVE RefRun(_, _, _)
\* The body applied once per leading iteration in which the mask is true.
RefRun(s, regs, fuel) ==
    IF fuel = 0 \/ ~RefMask(s) THEN s ELSE RefRun(RefBody(s, regs), regs, fuel - 1)

RefValues(regs) ==
    [s \in regs |-> [l \in 1..RefLanes |-> RefRun(RefStart(l), regs, LoopFuel)[s]]]

RECURSIVE RefScatter(_, _, _, _)
\* What one lane adds to target[i]: once per iteration with a true mask.
RefScatter(s, regs, fuel, i) ==
    IF fuel = 0 \/ ~RefMask(s) THEN 0
    ELSE (CASE cfg.se = "index_x" -> IF s.x = i THEN 1 ELSE 0
            [] cfg.se = "const"   -> IF i = 2 THEN 2 ELSE 0
            [] OTHER              -> 0)
         + RefScatter(RefBody(s, regs), regs, fuel - 1, i)

RefTarget(regs) ==
    [i \in 0..(TargetLen - 1) |->
        (IF cfg.pre = 1 /\ i = TargetLen - 1 THEN 1 ELSE 0)
        + SumFn([l \in 1..RefLanes |-> RefScatter(RefStart(l), regs, LoopFuel, i)],
                RefLanes)]

SideEffectsOnce ==
    \A r \in 1..2 : result[r].done => result[r].target = RefTarget(result[r].regs)

RecordProtocol ==
    flags.LoopRecord = 1 =>
        /\ jit.loop <= 1 /\ hist.bodies <= 1 /\ hist.calls <= 2
        /\ alive =>
            /\ hist.calls = 0 => loop.m_state = 1 /\ jit.loop = 0 /\ hist.bodies = 0
            /\ hist.calls = 1 => loop.m_state = 2 /\ jit.loop = 0 /\ ret
            /\ hist.calls = 2 => /\ loop.m_state = 3 /\ jit.loop = 1 /\ ~ret
                                 /\ hist.bodies = 1 /\ pc = "after"

\* A recorded loop whose lanes run up to MaxLimit iterations has been closed.
RecordedLoopClosed ==
    /\ flags.LoopRecord = 1 /\ alive /\ hist.calls = 2 /\ loop.m_state = 3
    /\ cfg.limit = MaxLimit /\ cfg.sizes[1] = MaxSize

\* C6: a recording Loop destroyed in state 1 or 2 calls the side-effect
\* rollback with the watermark of init() and sets PostponeSideEffects to the
\* value it had before init().
DestructorRollsBack ==
    (flags.LoopRecord = 1 /\ hist.dtors = 1 /\ hist.dtor_state \in {1, 2}) =>
        /\ jit.rollback = 1
        /\ jit.rollback_arg = hist.se_offset
        /\ flags.PostponeSideEffects = hist.se_flag

\* A fault ended a recording after its body had scheduled a side effect,
\* behind one that was pending before the loop.
RecordingAborted ==
    /\ flags.LoopRecord = 1 /\ hist.dtors = 1 /\ hist.dtor_state = 2
    /\ hist.bodies = 1 /\ cfg.se = "index_x" /\ hist.se_offset = 1
    /\ hist.se_flag = 0

\* C7: in recording mode PostponeSideEffects is set from init() until the
\* second cond(); after the second cond() it has the value it had before
\* init(), also when that value was "set".
PostponeFlagFrame ==
    flags.LoopRecord = 1 =>
        /\ (alive /\ loop.m_state \in {1, 2}) => flags.PostponeSideEffects = 1
        /\ hist.calls = 2 => flags.PostponeSideEffects = hist.se_flag

\* A recorded loop was closed whose flag was clear before init().
FlagRestored ==
    /\ flags.LoopRecord = 1 /\ alive /\ hist.calls = 2
    /\ hist.se_flag = 0 /\ flags.PostponeSideEffects = 0

(***************************************************************************)
(* Properties of put().                                                    *)
(***************************************************************************)
\* Sizes that are each 1 or one common N.
ValidSizes(q) == \E n \in 1..MaxSize : \A i \in 1..Len(q) : q[i] \in {1, n}

RECURSIVE MaxOfSeq(_)
MaxOfSeq(q) == IF q = << >> THEN 0 ELSE Max(Head(q), MaxOfSeq(Tail(q)))

\* C8: put() accepts, in any order, every sequence of variables whose sizes
\* are each 1 or one common N and raises for every other; the loop's size is
\* the largest size registered.
PutAcceptsValidSizes ==
    (alive /\ loop.m_state = 0 /\ pc = "setup") =>
        /\ hist.put_failed <=> ~ValidSizes(hist.puts)
        /\ ~hist.put_failed => loop.m_size = MaxOfSeq(hist.puts)

\* C9: a put() that raises leaves m_index_p, m_index_in and m_size as they
\* were.
FailedPutLeavesBuilder ==
    [][(pc = "setup" /\ err' = "put") =>
            /\ loop'.m_index_p = loop.m_index_p
            /\ loop'.m_index_in = loop.m_index_in
            /\ loop'.m_size = loop.m_size]_vars

(***************************************************************************)
(* The other CPU parallel primitives.  They use the task chain of the      *)
(* prefix sum; a task carries the captures of its lambda and, in `kind`,   *)
(* which lambda it is.                                                     *)
(***************************************************************************)
\* The host state a primitive works on.
Host == [mem |-> mem, tasks |-> tasks, released |-> released]

\* pool_size(), jitc_llvm_block_size and what fresh memory holds, as the call
\* under study finds them.
CallEnv == [pool |-> call.pool, block |-> call.block, garbage |-> call.garbage]

TaskKind(t) == IF "kind" \in DOMAIN t THEN t.kind ELSE "prefix_sum"

RECURSIVE compress_count(_, _, _, _, _)
\* Phase 1 of the CPU compress: the number of set bytes of block [i, end).
compress_count(m, in, i, end, accum) ==
    IF i = end THEN accum
    ELSE compress_count(m, in, i + 1, end, accum + m[in][i + 1])

RECURSIVE compress_write_late(_, _, _, _, _, _)
\* A faulty loop that advances the output position before it writes.
compress_write_late(m, in, out, i, end, accum) ==
    IF i = end THEN [m |-> m, accum |-> accum]
    ELSE LET value == m[in][i + 1]
         IN  compress_write_late(
                 IF value # 0 THEN [m EXCEPT ![out][accum + value + 1] = i] ELSE m,
                 in, out, i + 1, end, accum + value)

RECURSIVE compress_write(_, _, _, _, _, _)
\* The loop of phase 2: a set byte has its index written at out[accum].
\* Returns the memory and the final accum.
compress_write(m, in, out, i, end, accum) ==
    IF i = end THEN [m |-> m, accum |-> accum]
    ELSE LET value == m[in][i + 1]
         IN  compress_write(IF value # 0 THEN [m EXCEPT ![out][accum + 1] = i] ELSE m,
                            in, out, i + 1, end, accum + value)

\* The lambda of phase 2; the last block also stores the count.
compress_phase_2(m, t, index, start, end) ==
    LET r == compress_write(m, t.in, t.out, start, end,
                            IF t.scratch # 0 THEN m[t.scratch][index + 1] ELSE 0)
    IN  IF end = t.size THEN [r.m EXCEPT ![t.count_out][1] = r.accum] ELSE r.m

\* jitc_compress(), CPU backend, up to jitc_sync_thread().  count_out is the
\* address of the local variable of that name.
jitc_compress(s, env, in, size, out, count_out) ==
    LET block_size == IF env.pool > 1 THEN env.block ELSE size
        blocks     == IF env.pool > 1 THEN (size + block_size - 1) \div block_size ELSE 1
        scratch    == IF blocks > 1 THEN Len(s.mem) + 1 ELSE 0
        task(kind) == [kind |-> kind, block_size |-> block_size, size |-> size,
                       in |-> in, out |-> out, scratch |-> scratch,
                       count_out |-> count_out, blocks |-> blocks]
        s1 == IF blocks > 1
              THEN jitc_prefix_sum(
                       jitc_submit_cpu(jitc_malloc(s, blocks, env.garbage),
                                       task("compress_1")),
                       env, "UInt32", TRUE, scratch, blocks, scratch)
              ELSE s
    IN  jitc_free(jitc_submit_cpu(s1, task("compress_2")), scratch)

\* Number of bucket ids the sorted inputs are drawn from.
MaxBuckets == 3

\* buckets[index][b]: the histograms of the blocks, one row of bucket_count
\* counters after the other.
BucketAt(t, index, b) == index * t.bucket_count + b + 1

RECURSIVE mkperm_count(_, _, _, _, _)
\* The loop of phase 1: buckets_local[ptr[i]]++.
mkperm_count(m, ptr, i, end, buckets_local) ==
    IF i = end THEN buckets_local
    ELSE mkperm_count(m, ptr, i + 1, end,
                      [buckets_local EXCEPT ![m[ptr][i + 1] + 1] = @ + 1])

\* The lambda of phase 1: a zeroed histogram counts the block and becomes
\* buckets[index].
mkperm_phase_1(m, t, index, start, end) ==
    LET buckets_local == mkperm_count(m, t.ptr, start, end,
                                      [b \in 1..t.bucket_count |-> 0])
    IN  [m EXCEPT ![t.buckets] =
            [k \in DOMAIN @ |->
                IF k \in BucketAt(t, index, 0)..BucketAt(t, index, t.bucket_count - 1)
                THEN buckets_local[k - index * t.bucket_count]
                ELSE @[k]]]

RECURSIVE mkperm_accum_blocks_no_local(_, _, _, _, _, _)
\* A faulty inner loop that gives every block of a bucket the same position.
mkperm_accum_blocks_no_local(m, t, i, j, sum, sum_local) ==
    IF j = t.nblocks THEN [m |-> m, sum_local |-> sum_local]
    ELSE LET value == m[t.buckets][BucketAt(t, j, i)]
         IN  mkperm_accum_blocks_no_local(
                 [m EXCEPT ![t.buckets][BucketAt(t, j, i)] = sum],
                 t, i, j + 1, sum, sum_local + value)

RECURSIVE mkperm_accum_blocks(_, _, _, _, _, _)
\* The inner loop of the accumulation step: the count of bucket i in block j
\* is replaced by the position of its first element in perm.
mkperm_accum_blocks(m, t, i, j, sum, sum_local) ==
    IF j = t.nblocks THEN [m |-> m, sum_local |-> sum_local]
    ELSE LET value == m[t.buckets][BucketAt(t, j, i)]
         IN  mkperm_accum_blocks(
                 [m EXCEPT ![t.buckets][BucketAt(t, j, i)] = sum + sum_local],
                 t, i, j + 1, sum, sum_local + value)

\* A row of the offsets table.
offsets_row(m, offsets, row, bucket, start, length) ==
    [m EXCEPT ![offsets][row * 4 + 1] = bucket,
              ![offsets][row * 4 + 2] = start,
              ![offsets][row * 4 + 3] = length,
              ![offsets][row * 4 + 4] = 0]

RECURSIVE mkperm_accum(_, _, _, _, _)
\* The lambda of the accumulation step, from bucket i on.
mkperm_accum(m, t, i, sum, unique_count_local) ==
    IF i = t.bucket_count
    THEN [m EXCEPT ![t.unique_count][1] = unique_count_local]
    ELSE LET r == mkperm_accum_blocks(m, t, i, 0, sum, 0)
         IN  IF r.sum_local > 0
             THEN mkperm_accum(
                      IF t.offsets # 0
                      THEN offsets_row(r.m, t.offsets, unique_count_local, i, sum,
                                       r.sum_local)
                      ELSE r.m,
                      t, i + 1, sum + r.sum_local, unique_count_local + 1)
             ELSE mkperm_accum(r.m, t, i + 1, sum, unique_count_local)

RECURSIVE mkperm_place(_, _, _, _, _)
\* The loop of phase 2: idx = buckets_local[ptr[i]]++; perm[idx] = i.
mkperm_place(m, t, index, i, end) ==
    IF i = end THEN m
    ELSE LET k   == BucketAt(t, index, m[t.ptr][i + 1])
             idx == m[t.buckets][k]
         IN  mkperm_place([m EXCEPT ![t.buckets][k] = idx + 1,
                                    ![t.perm][idx + 1] = i],
                          t, index, i + 1, end)

\* The lambda of phase 2.
mkperm_phase_2(m, t, index, start, end) == mkperm_place(m, t, index, start, end)

\* jitc_mkperm(), CPU backend, up to the wait for the accumulation step.
\* unique_count is the address of the local variable of that name; offsets
\* is 0 when the caller passes no table.
jitc_mkperm(s, env, ptr, size, bucket_count, perm, offsets, unique_count) ==
    LET blocks_0   == env.pool * 4
        block_size == IF env.pool > 1
                      THEN Max(env.block, (size + blocks_0 - 1) \div blocks_0)
                      ELSE size
        blocks     == IF env.pool > 1 THEN (size + block_size - 1) \div block_size
                      ELSE 1
        buckets    == Len(s.mem) + 1
        task(kind, units, bs) ==
            [kind |-> kind, block_size |-> bs, size |-> size, blocks |-> units,
             nblocks |-> blocks, bucket_count |-> bucket_count, ptr |-> ptr,
             perm |-> perm, offsets |-> offsets, buckets |-> buckets,
             unique_count |-> unique_count]
        s1 == jitc_malloc(s, blocks * bucket_count, env.garbage)
        s2 == jitc_submit_cpu(s1, task("mkperm_1", blocks, block_size))
        s3 == jitc_submit_cpu(s2, task("mkperm_accum", 1, size))
        s4 == jitc_submit_cpu(s3, task("mkperm_2", blocks, block_size))
    IN  jitc_free(s4, buckets)

RECURSIVE BitAnd(_, _)
\* a & b on unsigned integers.
BitAnd(a, b) ==
    IF a = 0 \/ b = 0 THEN 0
    ELSE (a % 2) * (b % 2) + 2 * BitAnd(a \div 2, b \div 2)

RECURSIVE BitOr(_, _)
\* a | b on unsigned integers.
BitOr(a, b) ==
    IF a = 0 THEN b
    ELSE IF b = 0 THEN a
    ELSE Max(a % 2, b % 2) + 2 * BitOr(a \div 2, b \div 2)

\* ReduceOp, and the integer element types the reductions are checked for.
ReduceOps == {"Add", "Mul", "Min", "Max", "And", "Or"}
ReduceTypes == {"Int32", "UInt32", "UInt64"}

\* Memory holds the bit pattern of an element; a signed type reads it in
\* two's complement.
ValueOf(vt, x) == IF vt = "Int32" /\ x >= Modulus(vt) \div 2 THEN x - Modulus(vt) ELSE x

\* A faulty start value: every reduction starts from 0.
reduction_init_zero(vt, op) == 0

\* The start value of the lambdas of jitc_reduce_create<Value>(op).
reduction_init(vt, op) ==
    CASE op = "Add" -> 0
      [] op = "Mul" -> 1
      [] op = "Max" -> IF vt = "Int32" THEN Modulus(vt) \div 2 ELSE 0
      [] op = "Min" -> IF vt = "Int32" THEN Modulus(vt) \div 2 - 1 ELSE Modulus(vt) - 1
      [] op = "Or"  -> 0
      [] op = "And" -> Modulus(vt) - 1

\* One iteration of these lambdas: result op= ptr[i].  Sums and products of
\* Value wrap around; and/or work on the unsigned bit pattern.
reduction_step(vt, op, acc, x) ==
    CASE op = "Add" -> (acc + x) % Modulus(vt)
      [] op = "Mul" -> (acc * x) % Modulus(vt)
      [] op = "Max" -> IF ValueOf(vt, acc) < ValueOf(vt, x) THEN x ELSE acc
      [] op = "Min" -> IF ValueOf(vt, x) < ValueOf(vt, acc) THEN x ELSE acc
      [] op = "Or"  -> BitOr(acc, x)
      [] op = "And" -> BitAnd(acc, x)

RECURSIVE reduction_loop(_, _, _, _, _, _, _)
reduction_loop(m, vt, op, ptr, i, end, acc) ==
    IF i = end THEN acc
    ELSE reduction_loop(m, vt, op, ptr, i + 1, end,
                        reduction_step(vt, op, acc, m[ptr][i + 1]))

\* The Reduction of (type, op) applied to [start, end), stored at element
\* `index` of out.
reduction(m, vt, op, ptr, start, end, out, index) ==
    [m EXCEPT ![out][index + 1] =
        reduction_loop(m, vt, op, ptr, start, end, reduction_init(vt, op))]

RECURSIVE jitc_reduce(_, _, _, _, _, _, _)
\* jitc_reduce(), CPU backend.
jitc_reduce(s, env, vt, op, ptr, size, out) ==
    LET block_size == IF env.pool > 1 THEN env.block ELSE size
        blocks     == IF env.pool > 1 THEN (size + block_size - 1) \div block_size ELSE 1
        dst        == IF blocks > 1 THEN Len(s.mem) + 1 ELSE out
        s1 == IF blocks > 1 THEN jitc_malloc(s, blocks, env.garbage) ELSE s
        s2 == jitc_submit_cpu(s1, [kind |-> "reduce", block_size |-> block_size,
                                   size |-> size, blocks |-> Max(1, blocks),
                                   vt |-> vt, op |-> op, ptr |-> ptr,
                                   target |-> dst])
    IN  IF blocks > 1
        THEN jitc_free(jitc_reduce(s2, env, vt, op, dst, blocks, out), dst)
        ELSE s2

\* A buffer of bytes is held as the 32-bit words the reduction reads; a byte
\* is a quarter of a word, byte 0 the lowest.
ByteBits == WordBits \div 4
ByteMod == 2 ^ ByteBits
ByteOf(w, k) == (w \div (ByteMod ^ k)) % ByteMod
WithByte(w, k, b) == w - ByteOf(w, k) * (ByteMod ^ k) + b * (ByteMod ^ k)

\* Byte i of buffer ptr.
ByteAt(m, ptr, i) == ByteOf(m[ptr][i \div 4 + 1], i % 4)

RECURSIVE memset_bytes(_, _, _, _, _)
\* memset(ptr + i, value, end - i).
memset_bytes(m, ptr, i, end, value) ==
    IF i = end THEN m
    ELSE memset_bytes([m EXCEPT ![ptr][i \div 4 + 1] = WithByte(@, i % 4, value)],
                      ptr, i + 1, end, value)

\* jitc_memset_async() with isize = 1 on the CPU: a task that fills `count`
\* bytes from byte `first` of ptr on.
jitc_memset_async(s, ptr, first, count, value) ==
    IF count = 0 THEN s
    ELSE jitc_submit_cpu(s, [kind |-> "memset", block_size |-> count, size |-> count,
                             blocks |-> 1, ptr |-> ptr, first |-> first,
                             count |-> count, value |-> value])

\* A faulty all() that pads with false.
jitc_all_pads_false(s, env, values, size, out) ==
    LET reduced_size == (size + 3) \div 4
        trailing     == reduced_size * 4 - size
    IN  jitc_reduce(jitc_memset_async(s, values, size, trailing, 0),
                    env, "UInt32", "And", values, reduced_size, out)

\* jitc_all(), CPU backend, up to jitc_sync_thread().  out is the address of
\* the local array of that name.
jitc_all(s, env, values, size, out) ==
    LET reduced_size == (size + 3) \div 4
        trailing     == reduced_size * 4 - size
        filler       == 1
    IN  jitc_reduce(jitc_memset_async(s, values, size, trailing, filler),
                    env, "UInt32", "And", values, reduced_size, out)

\* result = (out[0] & out[1] & out[2] & out[3]) != 0
jitc_all_result(m, out) ==
    BitAnd(BitAnd(ByteAt(m, out, 0), ByteAt(m, out, 1)),
           BitAnd(ByteAt(m, out, 2), ByteAt(m, out, 3))) # 0

\* jitc_any(), CPU backend, up to jitc_sync_thread().
jitc_any(s, env, values, size, out) ==
    LET reduced_size == (size + 3) \div 4
        trailing     == reduced_size * 4 - size
        filler       == 0
    IN  jitc_reduce(jitc_memset_async(s, values, size, trailing, filler),
                    env, "UInt32", "Or", values, reduced_size, out)

\* result = (out[0] | out[1] | out[2] | out[3]) != 0
jitc_any_result(m, out) ==
    BitOr(BitOr(ByteAt(m, out, 0), ByteAt(m, out, 1)),
          BitOr(ByteAt(m, out, 2), ByteAt(m, out, 3))) # 0

\* What work unit `index` of task t does to the memory.
unit_effect(m, t, index) ==
    LET start == index * t.block_size
        end   == Min(start + t.block_size, t.size)
        kind  == TaskKind(t)
    IN  CASE kind = "prefix_sum" ->
                IF t.phase = 1
                THEN sum_reduce_1(m, t.vt, start, end, t.in, index, t.scratch)
                ELSE sum_reduce_2(m, t.vt, start, end, t.in, t.out, index, t.scratch,
                                  t.exclusive)
          [] kind = "compress_1" ->
                [m EXCEPT ![t.scratch][index + 1] = compress_count(m, t.in, start, end, 0)]
          [] kind = "compress_2" -> compress_phase_2(m, t, index, start, end)
          [] kind = "mkperm_1" -> mkperm_phase_1(m, t, index, start, end)
          [] kind = "mkperm_accum" -> mkperm_accum(m, t, 0, 0, 0)
          [] kind = "mkperm_2" -> mkperm_phase_2(m, t, index, start, end)
          [] kind = "memset" -> memset_bytes(m, t.ptr, t.first, t.first + t.count, t.value)
          [] kind = "reduce" ->
                reduction(m, t.vt, t.op, t.ptr, start, end, t.target, index)

\* A worker runs one work unit of the oldest task, whatever primitive
\* submitted it.  The task ends with its last unit.
RunWork ==
    /\ tasks # << >>
    /\ LET t == Head(tasks)
       IN  \E index \in (0..(t.blocks - 1)) \ unit_done :
            LET last == unit_done \cup {index} = 0..(t.blocks - 1)
            IN  /\ mem' = unit_effect(mem, t, index)
                /\ unit_done' = IF last THEN {} ELSE unit_done \cup {index}
                /\ tasks' = IF last THEN Tail(tasks) ELSE tasks
    /\ UNCHANGED <<released, scan, loopVars, otherVars>>

\* jitc_sync_thread(): returns once every task the thread submitted has run.
jitc_sync_thread_returns == tasks = << >>

\* The program: jit_compress(in, size, out) on size bytes in {0, 1}.
InitCompress ==
    /\ Start(1, 1, 1, 0, 0, 0, 0, 0, "unset")
    /\ scan = [state |-> "none"]
    /\ RestIdle
    /\ \E size \in 0..MaxScan, pool \in PoolSizes, block \in 2..MaxBlock,
          garbage \in {0, 1} :
        /\ (pool = 1 => block = 2 /\ garbage = 0)
        /\ \E input \in [1..size -> {0, 1}] :
            /\ call = [state |-> "ready", prim |-> "compress", size |-> size,
                       in |-> 1, out |-> 2, count_out |-> 0, pool |-> pool,
                       block |-> block, garbage |-> garbage, input |-> input,
                       ret |-> 0]
            /\ mem = <<input, [i \in 1..size |-> garbage]>>
    /\ tasks = << >>
    /\ unit_done = {}
    /\ released = {}

\* The host calls jitc_compress(): size 0 returns at once, otherwise the
\* tasks are submitted and the host waits in jitc_sync_thread().
CompressCall ==
    /\ call.state = "ready"
    /\ IF call.size = 0
       THEN /\ call' = [call EXCEPT !.state = "returned", !.ret = 0]
            /\ UNCHANGED <<mem, tasks, released>>
       ELSE LET count_out == Len(mem) + 1
                s == jitc_compress([Host EXCEPT !.mem = Append(@, <<0>>)], CallEnv,
                                   call.in, call.size, call.out, count_out)
            IN  /\ mem' = s.mem
                /\ tasks' = s.tasks
                /\ released' = s.released
                /\ call' = [call EXCEPT !.state = "waiting", !.count_out = count_out]
    /\ UNCHANGED <<unit_done, scan, loopVars, restVars>>

\* jitc_sync_thread() returns and jitc_compress() returns count_out.
CompressReturn ==
    /\ call.state = "waiting"
    /\ jitc_sync_thread_returns
    /\ call' = [call EXCEPT !.state = "returned", !.ret = mem[call.count_out][1]]
    /\ UNCHANGED <<mem, tasks, unit_done, released, scan, loopVars, restVars>>

NextCompress ==
    \/ CompressCall
    \/ RunWork
    \/ CompressReturn

\* One call of the stream compaction and the pool that runs it.
SpecCompress == InitCompress /\ [][NextCompress]_vars

\* C11: when the CPU compress of a byte array over {0, 1} has returned, all
\* its tasks have run, it has returned the number of set bytes, and the
\* index list it wrote is strictly increasing and names set bytes only, hence
\* exactly the set bytes; for size 0 it returns 0 and writes nothing.
CompressCorrect ==
    call.state = "returned" =>
        LET b == call.input
            n == call.size
            I == mem[call.out]
        IN  /\ tasks = << >>
            /\ call.ret = SumFn(b, n)
            /\ \A j \in 1..call.ret : I[j] \in 0..(n - 1) /\ b[I[j] + 1] = 1
            /\ \A j \in 1..(call.ret - 1) : I[j] < I[j + 1]
            /\ mem[call.in] = b
            /\ n = 0 => Len(mem) = 2 /\ released = {}

\* A compress of MaxScan bytes in blocks of two has returned at least three
\* indices, the first byte being clear.
CompressedInBlocks ==
    /\ call.state = "returned" /\ call.size = MaxScan
    /\ call.pool > 1 /\ call.block = 2
    /\ call.ret >= 3 /\ call.input[1] = 0

(***************************************************************************)
(* jit_mkperm() on the CPU.                                                *)
(***************************************************************************)
\* The program: jit_mkperm(ptr, size, bucket_count, perm, offsets) on bucket
\* ids below bucket_count (with bucket_count 0 there is no such id, and the
\* array holds zeros); the caller may pass no offsets table.
InitMkperm ==
    /\ Start(1, 1, 1, 0, 0, 0, 0, 0, "unset")
    /\ scan = [state |-> "none"]
    /\ RestIdle
    /\ \E size \in 0..MaxScan, bucket_count \in 0..MaxBuckets, pool \in PoolSizes,
          block \in 2..MaxBlock, garbage \in {0, 1}, table \in BOOLEAN :
        /\ (pool = 1 => block = 2 /\ garbage = 0)
        /\ \E input \in [1..size -> 0..Max(bucket_count - 1, 0)] :
            /\ call = [state |-> "ready", prim |-> "mkperm", size |-> size,
                       bucket_count |-> bucket_count, ptr |-> 1, perm |-> 2,
                       offsets |-> IF table THEN 3 ELSE 0, unique_count |-> 0,
                       pool |-> pool, block |-> block, garbage |-> garbage,
                       input |-> input, ret |-> 0]
            /\ mem = <<input, [i \in 1..size |-> garbage],
                       [i \in 1..(4 * bucket_count + 1) |-> garbage]>>
    /\ tasks = << >>
    /\ unit_done = {}
    /\ released = {}

\* The host calls jitc_mkperm(): size 0 returns at once, bucket_count 0 is
\* a fatal error (jitc_fail), otherwise the three tasks are submitted and
\* the host waits for the accumulation step.
MkpermCall ==
    /\ call.state = "ready"
    /\ call.prim = "mkperm"
    /\ IF call.size = 0
       THEN /\ call' = [call EXCEPT !.state = "returned", !.ret = 0]
            /\ UNCHANGED <<mem, tasks, released>>
       ELSE IF call.bucket_count = 0
       THEN /\ call' = [call EXCEPT !.state = "failed"]
            /\ UNCHANGED <<mem, tasks, released>>
       ELSE LET unique_count == Len(mem) + 1
                s == jitc_mkperm([Host EXCEPT !.mem = Append(@, <<0>>)], CallEnv,
                                 call.ptr, call.size, call.bucket_count, call.perm,
                                 call.offsets, unique_count)
            IN  /\ mem' = s.mem
                /\ tasks' = s.tasks
                /\ released' = s.released
                /\ call' = [call EXCEPT !.state = "waiting",
                                        !.unique_count = unique_count]
    /\ UNCHANGED <<unit_done, scan, loopVars, restVars>>

\* task_wait_and_release(local_task): the accumulation step, and so phase 1,
\* has run; phase 2 may still be running.
local_task_done ==
    \A k \in 1..Len(tasks) : TaskKind(tasks[k]) \notin {"mkperm_1", "mkperm_accum"}

\* jitc_mkperm() returns unique_count.
MkpermReturn ==
    /\ call.state = "waiting"
    /\ call.prim = "mkperm"
    /\ local_task_done
    /\ call' = [call EXCEPT !.state = "returned", !.ret = mem[call.unique_count][1]]
    /\ UNCHANGED <<mem, tasks, unit_done, released, scan, loopVars, restVars>>

NextMkperm ==
    \/ MkpermCall
    \/ RunWork
    \/ MkpermReturn

\* One call of jit_mkperm() and the pool that runs it.
SpecMkperm == InitMkperm /\ [][NextMkperm]_vars

\* The call has returned and every task it submitted has run.
MkpermFinished == call.prim = "mkperm" /\ call.state = "returned" /\ tasks = << >>

\* The bucket ids that occur in the input.
BucketsPresent == {call.input[i] : i \in 1..call.size}

\* C12: once the CPU mkperm has returned and all its tasks have run, perm is
\* a permutation of 0..n-1 that orders the bucket ids non-decreasingly and
\* keeps the source indices of one bucket increasing; the value returned is
\* the number of distinct buckets present, and row r below it of a given
\* offsets table is (bucket, start, length, 0) where perm[start .. start +
\* length - 1] are exactly the indices of that bucket.
MkpermCorrect ==
    MkpermFinished =>
        LET n    == call.size
            b    == call.input
            perm == mem[call.perm]
            off  == IF call.offsets = 0 THEN << >> ELSE mem[call.offsets]
        IN  /\ {perm[i] : i \in 1..n} = 0..(n - 1)
            /\ \A i \in 1..(n - 1) :
                   /\ b[perm[i] + 1] <= b[perm[i + 1] + 1]
                   /\ b[perm[i] + 1] = b[perm[i + 1] + 1] => perm[i] < perm[i + 1]
            /\ call.ret = Cardinality(BucketsPresent)
            /\ call.offsets # 0 =>
                   /\ {off[4 * r + 1] : r \in 0..(call.ret - 1)} = BucketsPresent
                   /\ \A r \in 0..(call.ret - 1) :
                          LET bucket == off[4 * r + 1]
                              start  == off[4 * r + 2]
                              length == off[4 * r + 3]
                          IN  /\ off[4 * r + 4] = 0
                              /\ {perm[i] : i \in (start + 1)..(start + length)}
                                     = {i \in 0..(n - 1) : b[i + 1] = bucket}

\* A bucket that occurs in two blocks has been grouped, with a table, out of
\* an input that was not sorted.
MkpermGroupedBlocks ==
    /\ MkpermFinished
    /\ call.size = MaxScan /\ call.pool > 1 /\ call.offsets # 0
    /\ call.ret >= 2
    /\ call.input[1] = call.input[MaxScan] /\ call.input[1] > call.input[2]

\* C13: a call with an offsets table leaves, after the rows of the non-empty
\* buckets, a final row whose first slot is the number of distinct buckets
\* that the call returns; the final row is looked for both directly behind
\* the rows and in the last row of the table.
MkpermFinalRow ==
    (MkpermFinished /\ call.size > 0 /\ call.offsets # 0) =>
        \/ mem[call.offsets][4 * call.ret + 1] = call.ret
        \/ mem[call.offsets][4 * call.bucket_count + 1] = call.ret

(***************************************************************************)
(* jit_reduce() on the CPU.                                                *)
(***************************************************************************)
\* The program: jit_reduce(type, op, ptr, size, out) on an integer array.
InitReduce ==
    /\ Start(1, 1, 1, 0, 0, 0, 0, 0, "unset")
    /\ scan = [state |-> "none"]
    /\ RestIdle
    /\ \E vt \in ReduceTypes, op \in ReduceOps, size \in 0..MaxScan, pool \in PoolSizes,
          block \in 2..MaxBlock, garbage \in {0, 1} :
        /\ (pool = 1 => block = 2 /\ garbage = 0)
        /\ \E input \in [1..size -> Elems(vt)] :
            /\ call = [state |-> "ready", prim |-> "reduce", vt |-> vt, op |-> op,
                       size |-> size, ptr |-> 1, out |-> 2, pool |-> pool,
                       block |-> block, garbage |-> garbage, input |-> input]
            /\ mem = <<input, <<garbage>>>>
    /\ tasks = << >>
    /\ unit_done = {}
    /\ released = {}

\* The host calls jitc_reduce(), which submits its tasks and returns.
ReduceCall ==
    /\ call.state = "ready"
    /\ call.prim = "reduce"
    /\ LET s == jitc_reduce(Host, CallEnv, call.vt, call.op, call.ptr, call.size,
                            call.out)
       IN  /\ mem' = s.mem
           /\ tasks' = s.tasks
           /\ released' = s.released
    /\ call' = [call EXCEPT !.state = "submitted"]
    /\ UNCHANGED <<unit_done, scan, loopVars, restVars>>

NextReduce ==
    \/ ReduceCall
    \/ RunWork

\* One call of jit_reduce() and the pool that runs it.
SpecReduce == InitReduce /\ [][NextReduce]_vars

\* Every task of the reduction has run.
ReduceFinished == call.prim = "reduce" /\ call.state = "submitted" /\ tasks = << >>

RECURSIVE SeqFold(_, _, _, _, _)
\* f[1] op ... op f[n], folded from the left starting from `identity`.
SeqFold(f, n, vt, op, identity) ==
    IF n = 0 THEN identity
    ELSE reduction_step(vt, op, SeqFold(f, n - 1, vt, op, identity), f[n])

MaxBools == 2 * MaxScan

\* The words that hold the bytes `bytes`, the rest of the last word being
\* `garbage`.
PackWords(bytes, size, garbage) ==
    [w \in 1..((size + 3) \div 4) |->
        LET b(k) == IF 4 * (w - 1) + k < size THEN bytes[4 * (w - 1) + k + 1]
                    ELSE garbage
        IN  b(0) + ByteMod * (b(1) + ByteMod * (b(2) + ByteMod * b(3)))]

\* The program: jit_all(values, size) or jit_any(values, size) on bytes in
\* {0, 1}; the allocation is a whole number of words.
InitAllAny ==
    /\ Start(1, 1, 1, 0, 0, 0, 0, 0, "unset")
    /\ scan = [state |-> "none"]
    /\ RestIdle
    /\ \E prim \in {"all", "any"}, size \in 0..MaxBools, pool \in PoolSizes,
          block \in 2..MaxBlock, garbage \in {0, 1} :
        /\ (pool = 1 => block = 2)
        /\ \E input \in [1..size -> {0, 1}] :
            /\ call = [state |-> "ready", prim |-> prim, size |-> size,
                       values |-> 1, out |-> 0, pool |-> pool, block |-> block,
                       garbage |-> garbage, input |-> input, result |-> FALSE]
            /\ mem = <<PackWords(input, size, garbage)>>
    /\ tasks = << >>
    /\ unit_done = {}
    /\ released = {}

\* The host calls jitc_all() or jitc_any(): the padding and the reduction
\* are submitted and the host waits in jitc_sync_thread().
AllAnyCall ==
    /\ call.state = "ready"
    /\ call.prim \in {"all", "any"}
    /\ LET out == Len(mem) + 1
           s0  == [Host EXCEPT !.mem = Append(@, <<call.garbage>>)]
           s   == IF call.prim = "all"
                  THEN jitc_all(s0, CallEnv, call.values, call.size, out)
                  ELSE jitc_any(s0, CallEnv, call.values, call.size, out)
       IN  /\ mem' = s.mem
           /\ tasks' = s.tasks
           /\ released' = s.released
           /\ call' = [call EXCEPT !.state = "waiting", !.out = out]
    /\ UNCHANGED <<unit_done, scan, loopVars, restVars>>

\* jitc_sync_thread() returns and the four bytes of out are tested.
AllAnyReturn ==
    /\ call.state = "waiting"
    /\ call.prim \in {"all", "any"}
    /\ jitc_sync_thread_returns
    /\ call' = [call EXCEPT !.state = "returned",
                            !.result = IF call.prim = "all"
                                       THEN jitc_all_result(mem, call.out)
                                       ELSE jitc_any_result(mem, call.out)]
    /\ UNCHANGED <<mem, tasks, unit_done, released, scan, loopVars, restVars>>

NextAllAny ==
    \/ AllAnyCall
    \/ RunWork
    \/ AllAnyReturn

\* One call of jit_all() or jit_any() and the pool that runs it.
SpecAllAny == InitAllAny /\ [][NextAllAny]_vars

\* The bytes behind the input range up to the end of its last word.
TrailingBytes == call.size..(4 * ((call.size + 3) \div 4) - 1)

\* The first reduction task, the one that reads the array, is next to run.
ReductionReadsArray ==
    /\ tasks # << >>
    /\ TaskKind(Head(tasks)) = "reduce"
    /\ Head(tasks).ptr = call.values

\* C15: all() of bytes in {0, 1} returns true iff each of the first `size`
\* bytes is 1, any() iff one of them is 1; no byte of the input range ever
\* changes, the only other bytes of the array, at most three directly behind
\* the range, hold the identity of the operation (1 for all, 0 for any) when
\* the 32-bit reduction reads the array and when the call has returned.
AllAnyCorrect ==
    call.prim \in {"all", "any"} =>
        LET identity == IF call.prim = "all" THEN 1 ELSE 0
        IN  /\ \A i \in 0..(call.size - 1) :
                   ByteAt(mem, call.values, i) = call.input[i + 1]
            /\ Cardinality(TrailingBytes) <= 3
            /\ Len(mem[call.values]) * 4 = call.size + Cardinality(TrailingBytes)
            /\ (ReductionReadsArray \/ call.state = "returned") =>
                   \A i \in TrailingBytes : ByteAt(mem, call.values, i) = identity
            /\ call.state = "returned" =>
                   call.result = IF call.prim = "all"
                                 THEN \A i \in 1..call.size : call.input[i] = 1
                                 ELSE \E i \in 1..call.size : call.input[i] = 1

\* all() has returned true for an array of several blocks whose last word
\* had three bytes of padding that were 0 before the call.
AllTrueWithPadding ==
    /\ call.prim = "all" /\ call.state = "returned" /\ call.result
    /\ call.size > 8 /\ call.size % 4 = 1
    /\ call.pool > 1 /\ call.garbage = 0

(***************************************************************************)
(* The kernel cache: jitc_assemble() leaves the kernel text, its hash and  *)
(* its name in globals, jitc_run() looks the kernel up, loads or compiles  *)
(* it, and launches it.                                                    *)
(***************************************************************************)
\* Kernels launched in one run of the model.
MaxLaunches == 3

\* Kernel texts as the code generator leaves them, the name still '^'s.
Texts == {"a", "b"}

\* hash_kernel(): the content hash of a text; distinct texts are taken to
\* have distinct hashes.
hash_kernel(text) == IF text = "a" THEN 1 ELSE 2

\* The thread states a kernel is assembled for: the LLVM one has device -1.
ThreadStates ==
    {[backend |-> "LLVM", device |-> -1]} \cup
    {[backend |-> "CUDA", device |-> d] : d \in {0, 1}}

\* JitFlag::ForceOptiX is set while kernels for this thread state are
\* assembled, and for no other.
OptixThreadState == [backend |-> "CUDA", device |-> 0]

\* The pipeline compile options of an OptiX thread state, as run() packs
\* them into the flags of the key.
PcoFlags == {1, 2}

\* The globals before the first assembly.
NoKernel == [buffer |-> "", kernel_hash |-> 0, kernel_name |-> "", uses_optix |-> FALSE]

\* A faulty assembly that keeps the hash of the previous kernel.
jitc_assemble_stale_hash(g, ts, text, force_optix) ==
    LET uses_optix  == ts.backend = "CUDA" /\ force_optix
        kernel_hash == IF g.kernel_hash = 0 THEN hash_kernel(text) ELSE g.kernel_hash
        kernel_name == [prefix |-> IF uses_optix THEN "__raygen__" ELSE "enoki_",
                        hash |-> kernel_hash]
    IN  [buffer |-> [text |-> text, name |-> kernel_name],
         kernel_hash |-> kernel_hash, kernel_name |-> kernel_name,
         uses_optix |-> uses_optix]

\* jitc_assemble(): the globals it leaves behind.  The hash is taken of the
\* generated text and the name, written over the '^'s, is made of it.
jitc_assemble(g, ts, text, force_optix) ==
    LET uses_optix  == ts.backend = "CUDA" /\ force_optix
        kernel_hash == hash_kernel(text)
        kernel_name == [prefix |-> IF uses_optix THEN "__raygen__" ELSE "enoki_",
                        hash |-> kernel_hash]
    IN  [buffer |-> [text |-> text, name |-> kernel_name],
         kernel_hash |-> kernel_hash, kernel_name |-> kernel_name,
         uses_optix |-> uses_optix]

\* KernelKey kernel_key(buffer.get(), ts->device, flags)
KernelKey(g, ts, pco) ==
    [str |-> g.buffer, device |-> ts.device, flags |-> IF g.uses_optix THEN pco ELSE 0]

\* A faulty lookup that never finds a kernel.
kernel_cache_find_never(kernel_cache, key) == FALSE

\* state.kernel_cache.find(kernel_key, hash) # end()
kernel_cache_find(kernel_cache, key) == key \in kernel_cache

\* The file of the disk cache that jitc_kernel_load() and
\* jitc_kernel_write() use for the kernel.
KernelFile(g, ts) == [hash |-> g.kernel_hash, backend |-> ts.backend, source |-> g.buffer]

InitKernels ==
    /\ Start(1, 1, 1, 0, 0, 0, 0, 0, "unset")
    /\ PoolIdle
    /\ call = [state |-> "none"]
    /\ locks = [state |-> "none"]
    /\ evalq = [state |-> "none"]
    /\ cpu = [state |-> "none"]
    /\ \E old \in {{}, {[hash |-> hash_kernel("a"), backend |-> "LLVM",
                        source |-> jitc_assemble(NoKernel, [backend |-> "LLVM",
                                                 device |-> -1], "a", FALSE).buffer]}} :
        kcache = [state |-> "idle", g |-> NoKernel, ts |-> [backend |-> "LLVM", device |-> -1],
                  pco |-> 0, kernel_cache |-> {}, disk |-> old, key |-> 0,
                  cache_hit |-> FALSE, data |-> FALSE, launches |-> 0,
                  hits |-> 0, soft_misses |-> 0, hard_misses |-> 0,
                  kernel_launches |-> 0, counted |-> [launches |-> 0, hits |-> 0,
                                                      soft_misses |-> 0, hard_misses |-> 0],
                  log |-> << >>, installed |-> {}, was_installed |-> FALSE,
                  seen |-> {}]

\* jitc_eval() assembles the next group: a text for some thread state.
Assemble ==
    /\ kcache.state = "idle"
    /\ kcache.launches < MaxLaunches
    /\ \E text \in Texts, ts \in ThreadStates, force_optix \in BOOLEAN, pco \in PcoFlags :
        /\ (ts.backend = "CUDA" /\ force_optix) \/ pco = 1
        /\ force_optix => ts = OptixThreadState
        /\ kcache' = [kcache EXCEPT
                !.state = "assembled",
                !.g = jitc_assemble(@, ts, text, force_optix),
                !.ts = ts, !.pco = pco, !.log = << >>, !.was_installed = FALSE,
                !.counted = [launches |-> kcache.kernel_launches, hits |-> kcache.hits,
                             soft_misses |-> kcache.soft_misses,
                             hard_misses |-> kcache.hard_misses],
                !.cache_hit = FALSE, !.data = FALSE, !.key = 0]
    /\ UNCHANGED <<loopVars, scanVars, call, locks, evalq, cpu>>

\* jitc_run(): the key is built and looked up in state.kernel_cache.  A hit
\* is counted by state.kernel_hits++ and, as next statement after the
\* branch, state.kernel_launches++.
RunLookup ==
    /\ kcache.state = "assembled"
    /\ LET key == KernelKey(kcache.g, kcache.ts, kcache.pco)
           hit == kernel_cache_find(kcache.kernel_cache, key)
       IN  kcache' = [kcache EXCEPT
                !.key = key,
                !.state = IF hit THEN "launch" ELSE "miss",
                !.hits = IF hit THEN @ + 1 ELSE @,
                !.kernel_launches = IF hit THEN @ + 1 ELSE @,
                !.log = Append(@, IF hit THEN "mem_hit" ELSE "mem_miss"),
                !.was_installed = key \in kcache.installed,
                !.seen = @ \cup {[text |-> kcache.g.buffer.text, ts |-> kcache.ts,
                                  flags |-> key.flags, optix |-> kcache.g.uses_optix,
                                  hash |-> kcache.g.kernel_hash,
                                  name |-> kcache.g.kernel_name, key |-> key]}]
    /\ UNCHANGED <<loopVars, scanVars, call, locks, evalq, cpu>>

\* jitc_kernel_load(): kernels that are not OptiX kernels are looked for on
\* disk.
RunDiskLoad ==
    /\ kcache.state = "miss"
    /\ ~kcache.g.uses_optix
    /\ LET cache_hit == KernelFile(kcache.g, kcache.ts) \in kcache.disk
       IN  kcache' = [kcache EXCEPT
                !.state = "loaded", !.cache_hit = cache_hit, !.data = cache_hit,
                !.log = Append(@, IF cache_hit THEN "disk_hit" ELSE "disk_miss")]
    /\ UNCHANGED <<loopVars, scanVars, call, locks, evalq, cpu>>

\* if (!cache_hit): the compiler of the backend.  The PTX and LLVM compilers
\* return the binary in kernel.data; the OptiX one may find the kernel in
\* its own cache and may leave kernel.data empty.
RunCompile ==
    /\ \/ kcache.state = "miss" /\ kcache.g.uses_optix
       \/ kcache.state = "loaded" /\ ~kcache.cache_hit
    /\ \E optix_hit \in BOOLEAN, data \in BOOLEAN :
        /\ kcache.g.uses_optix \/ (~optix_hit /\ data)
        /\ kcache' = [kcache EXCEPT
                !.state = "compiled", !.cache_hit = optix_hit, !.data = data,
                !.log = Append(@, "compile")]
    /\ UNCHANGED <<loopVars, scanVars, call, locks, evalq, cpu>>

\* if (kernel.data) jitc_kernel_write(...)
RunDiskWrite ==
    /\ kcache.state = "compiled"
    /\ kcache.data
    /\ kcache' = [kcache EXCEPT
            !.state = "written",
            !.disk = @ \cup {KernelFile(kcache.g, kcache.ts)},
            !.log = Append(@, "disk_write")]
    /\ UNCHANGED <<loopVars, scanVars, call, locks, evalq, cpu>>

\* The kernel was loaded or built and is ready to be linked.
ReadyToLink ==
    \/ kcache.state = "loaded" /\ kcache.cache_hit
    \/ kcache.state = "compiled" /\ ~kcache.data
    \/ kcache.state = "written"

\* What cuModuleLoadData() may return.
LoadResults == {"CUDA_SUCCESS", "CUDA_ERROR_OUT_OF_MEMORY", "CUDA_ERROR_INVALID_IMAGE"}

\* The log entry of a call of cuModuleLoadData().
LoadEvent(r) ==
    CASE r = "CUDA_SUCCESS" -> "load_ok"
      [] r = "CUDA_ERROR_OUT_OF_MEMORY" -> "load_oom"
      [] OTHER -> "load_error"

\* A faulty loader that tries again after any failure, without trimming.
cuda_module_load_again(r1, r2) ==
    IF r1 # "CUDA_SUCCESS"
    THEN [ret |-> r2, log |-> <<LoadEvent(r1), LoadEvent(r2)>>]
    ELSE [ret |-> r1, log |-> <<LoadEvent(r1)>>]

\* jitc_run(), CUDA without OptiX: cuModuleLoadData() returns r1; if that is
\* out of memory, jitc_malloc_trim() runs and the second call returns r2.
cuda_module_load(r1, r2) ==
    IF r1 = "CUDA_ERROR_OUT_OF_MEMORY"
    THEN [ret |-> r2, log |-> <<LoadEvent(r1), "trim", LoadEvent(r2)>>]
    ELSE [ret |-> r1, log |-> <<LoadEvent(r1)>>]

\* The kernel is linked by the CUDA driver.
LinksCudaModule == kcache.ts.backend = "CUDA" /\ ~kcache.g.uses_optix

\* A faulty count that adds a hard miss to every soft miss.
count_miss_twice(k, cache_hit) ==
    [k EXCEPT !.soft_misses = IF cache_hit THEN @ + 1 ELSE @,
              !.hard_misses = @ + 1,
              !.kernel_launches = @ + 1]

\* if (cache_hit) state.kernel_soft_misses++; else state.kernel_hard_misses++;
\* and, as next statement after the branch, state.kernel_launches++.
count_miss(k, cache_hit) ==
    [k EXCEPT !.soft_misses = IF cache_hit THEN @ + 1 ELSE @,
              !.hard_misses = IF cache_hit THEN @ ELSE @ + 1,
              !.kernel_launches = @ + 1]

\* The module is loaded (CUDA) or disassembled (LLVM) and the kernel is put
\* in state.kernel_cache; the miss is counted.
RunInstall ==
    /\ ReadyToLink
    /\ \E r1 \in LoadResults, r2 \in LoadResults :
        LET load == IF LinksCudaModule THEN cuda_module_load(r1, r2)
                    ELSE [ret |-> "CUDA_SUCCESS", log |-> << >>]
        IN  /\ load.ret = "CUDA_SUCCESS"
            /\ kcache' = [count_miss(kcache, kcache.cache_hit) EXCEPT
                    !.state = "launch",
                    !.kernel_cache = @ \cup {kcache.key},
                    !.installed = @ \cup {kcache.key},
                    !.log = @ \o load.log \o <<"install">>]
    /\ UNCHANGED <<loopVars, scanVars, call, locks, evalq, cpu>>

\* cuda_check(ret) raises: cuModuleLoadData() failed, after the retry if it
\* was out of memory.  The launch is over and nothing was installed.
RunLoadFails ==
    /\ ReadyToLink
    /\ LinksCudaModule
    /\ \E r1 \in LoadResults, r2 \in LoadResults :
        LET load == cuda_module_load(r1, r2)
        IN  /\ load.ret # "CUDA_SUCCESS"
            /\ kcache' = [kcache EXCEPT !.state = "idle", !.launches = @ + 1,
                                        !.log = @ \o load.log \o <<"fault">>]
    /\ UNCHANGED <<loopVars, scanVars, call, locks, evalq, cpu>>

\* The kernel is launched.
RunLaunch ==
    /\ kcache.state = "launch"
    /\ kcache' = [kcache EXCEPT !.state = "idle", !.launches = @ + 1,
                                !.log = Append(@, "launch")]
    /\ UNCHANGED <<loopVars, scanVars, call, locks, evalq, cpu>>

NextKernels ==
    \/ Assemble
    \/ RunLookup
    \/ RunDiskLoad
    \/ RunCompile
    \/ RunDiskWrite
    \/ RunInstall
    \/ RunLoadFails
    \/ RunLaunch

\* A sequence of kernel launches of one process.
SpecKernels == InitKernels /\ [][NextKernels]_vars

\* Event e is in the log of the launch in progress before position i.
Earlier(e, i) == \E j \in 1..(i - 1) : kcache.log[j] = e

Threads == {1, 2}

\* Entries jitc_var_traverse() appends to the schedule in one evaluation.
MaxSchedule == 2

\* What a thread calls: jit_eval(), or a primitive that submits work to the
\* pool (jitc_submit_cpu) or to the stream (jitc_submit_gpu).
ApiCalls == {"eval", "submit_cpu", "submit_gpu"}

\* Places where a thread blocks until something outside the library is
\* done: task_wait(), cuStreamSynchronize(), cuModuleLoadData(), an
\* allocation that releases the lock, an external callback.
Waits == {"task_wait", "stream_sync", "module_load", "malloc", "callback"}

\* A faulty lock that does not look at the owner.
eval_mutex_try_lock_free(l, t) == TRUE

\* state.eval_mutex can be taken by thread t.
eval_mutex_try_lock(l, t) == l.eval_mutex = 0

\* Thread t is between acquiring the evaluator mutex and returning from
\* jitc_eval().
InEval(t) == locks.pc[t] \in {"eval_locked", "eval_work", "eval_wait"}

InitThreads ==
    /\ Start(1, 1, 1, 0, 0, 0, 0, 0, "unset")
    /\ PoolIdle
    /\ call = [state |-> "none"]
    /\ kcache = [state |-> "none"]
    /\ evalq = [state |-> "none"]
    /\ cpu = [state |-> "none"]
    /\ \E blocking \in BOOLEAN :
        locks = [state |-> "run", LaunchBlocking |-> blocking,
                 mutex |-> 0, eval_mutex |-> 0,
                 pc |-> [t \in Threads |-> "idle"],
                 wait |-> [t \in Threads |-> "none"],
                 exit |-> [t \in Threads |-> "none"],
                 schedule |-> [writer |-> 0, len |-> 0],
                 visited |-> 0, kernel_params |-> 0]

\* The globals of eval.cpp after thread t has written to them.
Written(l, t, len) ==
    [l EXCEPT !.schedule = [writer |-> t, len |-> len], !.visited = t,
              !.kernel_params = t]

\* An API function called by thread t takes the global mutex.
ApiEnter(t) ==
    /\ locks.state = "run"
    /\ locks.pc[t] = "idle"
    /\ locks.mutex = 0
    /\ \E f \in ApiCalls :
        locks' = [locks EXCEPT !.mutex = t, !.pc[t] = f]
    /\ UNCHANGED <<loopVars, scanVars, call, kcache, evalq, cpu>>

\* A faulty entry that keeps state.mutex locked.
eval_keep_locked(l, t) == [l EXCEPT !.pc[t] = "eval_unlocked"]

\* state.mutex.unlock() at the entry of jitc_eval()
eval_unlock(l, t) == [l EXCEPT !.mutex = 0, !.pc[t] = "eval_unlocked"]

\* jitc_eval(): nothing is scheduled and the function returns, or
\* state.mutex is unlocked.
EvalUnlock(t) ==
    /\ locks.pc[t] = "eval"
    /\ locks.mutex = t
    /\ \/ locks' = [locks EXCEPT !.pc[t] = "eval_done", !.exit[t] = "nothing_queued"]
       \/ locks' = eval_unlock(locks, t)
    /\ UNCHANGED <<loopVars, scanVars, call, kcache, evalq, cpu>>

\* lock_guard guard(state.eval_mutex)
EvalLock(t) ==
    /\ locks.pc[t] = "eval_unlocked"
    /\ eval_mutex_try_lock(locks, t)
    /\ locks' = [locks EXCEPT !.eval_mutex = t, !.pc[t] = "eval_locked"]
    /\ UNCHANGED <<loopVars, scanVars, call, kcache, evalq, cpu>>

\* state.mutex.lock(); visited.clear(); schedule.clear();
EvalRelock(t) ==
    /\ locks.pc[t] = "eval_locked"
    /\ locks.mutex = 0
    /\ locks' = [Written(locks, t, 0) EXCEPT !.mutex = t, !.pc[t] = "eval_work"]
    /\ UNCHANGED <<loopVars, scanVars, call, kcache, evalq, cpu>>

\* jitc_var_traverse() appends to the schedule and the visited set;
\* jitc_assemble() fills the parameter vector.
EvalAppend(t) ==
    /\ locks.pc[t] = "eval_work"
    /\ locks.mutex = t
    /\ locks.schedule.len < MaxSchedule
    /\ locks' = Written(locks, t, locks.schedule.len + 1)
    /\ UNCHANGED <<loopVars, scanVars, call, kcache, evalq, cpu>>

\* jitc_assemble_func(), called while a kernel is assembled: visited and
\* schedule are cleared and filled with the variables of the function.
EvalAssembleFunc(t) ==
    /\ locks.pc[t] = "eval_work"
    /\ locks.mutex = t
    /\ locks.schedule.len > 0
    /\ locks' = Written(locks, t, 0)
    /\ UNCHANGED <<loopVars, scanVars, call, kcache, evalq, cpu>>

\* A suspension point of the evaluation: the allocation of an output
\* (jitc_malloc may release the lock), cuModuleLoadData() in jitc_run() and
\* an external callback of the cleanup pass run with state.mutex unlocked.
EvalSuspend(t) ==
    /\ locks.pc[t] = "eval_work"
    /\ locks.mutex = t
    /\ \E w \in {"malloc", "module_load", "callback"} :
        locks' = [locks EXCEPT !.mutex = 0, !.pc[t] = "eval_wait", !.wait[t] = w]
    /\ UNCHANGED <<loopVars, scanVars, call, kcache, evalq, cpu>>

\* The wait is over and state.mutex is locked again.
EvalResume(t) ==
    /\ locks.pc[t] = "eval_wait"
    /\ locks.mutex = 0
    /\ locks' = [locks EXCEPT !.mutex = t, !.pc[t] = "eval_work", !.wait[t] = "none"]
    /\ UNCHANGED <<loopVars, scanVars, call, kcache, evalq, cpu>>

\* The ways jitc_eval() is left after it took state.eval_mutex.
EvalExits == {"empty_schedule", "completed", "fault"}

\* jitc_eval() returns - the schedule is empty, or the cleanup is done - or
\* an exception leaves it: the guard unlocks state.eval_mutex.
EvalReturn(t) ==
    /\ locks.pc[t] = "eval_work"
    /\ locks.mutex = t
    /\ \E e \in EvalExits :
        /\ e = "empty_schedule" => locks.schedule.len = 0
        /\ locks' = [locks EXCEPT !.eval_mutex = 0, !.pc[t] = "eval_done",
                                  !.exit[t] = e]
    /\ UNCHANGED <<loopVars, scanVars, call, kcache, evalq, cpu>>

\* The API function that called jitc_eval() returns and unlocks state.mutex.
ApiReturn(t) ==
    /\ locks.pc[t] = "eval_done"
    /\ locks.mutex = t
    /\ locks' = [locks EXCEPT !.mutex = 0, !.pc[t] = "idle", !.exit[t] = "none"]
    /\ UNCHANGED <<loopVars, scanVars, call, kcache, evalq, cpu>>

\* jitc_submit_cpu(): the task is submitted; with LaunchBlocking the thread
\* unlocks state.lock and waits for the task.
SubmitCpu(t) ==
    /\ locks.pc[t] = "submit_cpu"
    /\ locks.mutex = t
    /\ IF locks.LaunchBlocking
       THEN locks' = [locks EXCEPT !.mutex = 0, !.pc[t] = "cpu_wait",
                                   !.wait[t] = "task_wait"]
       ELSE locks' = [locks EXCEPT !.mutex = 0, !.pc[t] = "idle"]
    /\ UNCHANGED <<loopVars, scanVars, call, kcache, evalq, cpu>>

\* task_wait() returns, the unlock_guard locks state.lock again and the API
\* function returns.
SubmitCpuDone(t) ==
    /\ locks.pc[t] = "cpu_wait"
    /\ locks.mutex = 0
    /\ locks' = [locks EXCEPT !.pc[t] = "idle", !.wait[t] = "none"]
    /\ UNCHANGED <<loopVars, scanVars, call, kcache, evalq, cpu>>

\* jitc_submit_gpu(): the kernel is launched; with LaunchBlocking the thread
\* calls cuStreamSynchronize(stream).
SubmitGpu(t) ==
    /\ locks.pc[t] = "submit_gpu"
    /\ locks.mutex = t
    /\ IF locks.LaunchBlocking
       THEN locks' = [locks EXCEPT !.pc[t] = "gpu_wait", !.wait[t] = "stream_sync"]
       ELSE locks' = [locks EXCEPT !.mutex = 0, !.pc[t] = "idle"]
    /\ UNCHANGED <<loopVars, scanVars, call, kcache, evalq, cpu>>

\* cuStreamSynchronize() returns and the API function returns.
SubmitGpuDone(t) ==
    /\ locks.pc[t] = "gpu_wait"
    /\ locks' = [locks EXCEPT !.mutex = 0, !.pc[t] = "idle", !.wait[t] = "none"]
    /\ UNCHANGED <<loopVars, scanVars, call, kcache, evalq, cpu>>

\* A step of thread t.
ThreadStep(t) ==
    \/ ApiEnter(t)
    \/ EvalUnlock(t)
    \/ EvalLock(t)
    \/ EvalRelock(t)
    \/ EvalAppend(t)
    \/ EvalAssembleFunc(t)
    \/ EvalSuspend(t)
    \/ EvalResume(t)
    \/ EvalReturn(t)
    \/ ApiReturn(t)
    \/ SubmitCpu(t)
    \/ SubmitCpuDone(t)
    \/ SubmitGpu(t)
    \/ SubmitGpuDone(t)

NextThreads == \E t \in Threads : ThreadStep(t)

\* Two threads that call into the library.
SpecThreads == InitThreads /\ [][NextThreads]_vars

\* C18: at most one thread is between acquiring the evaluator mutex in
\* jitc_eval() and returning from it, also while it has released the global
\* mutex at a suspension point; once it has cleared them, the schedule, the
\* visited set and the parameter vector were last written by that thread.
EvalExclusive ==
    locks.state = "run" =>
        /\ Cardinality({t \in Threads : InEval(t)}) <= 1
        /\ \A t \in Threads :
               InEval(t) =>
                   /\ locks.eval_mutex = t
                   /\ locks.pc[t] \in {"eval_work", "eval_wait"} =>
                          /\ locks.schedule.writer = t
                          /\ locks.visited = t
                          /\ locks.kernel_params = t

\* A thread evaluates and waits for a module to load with the global mutex
\* released; the other thread holds the global mutex and is about to take
\* the evaluator mutex.
EvalSuspendedOtherWants ==
    /\ locks.state = "run"
    /\ locks.pc[1] = "eval_wait" /\ locks.wait[1] = "module_load"
    /\ locks.schedule.len = MaxSchedule
    /\ locks.pc[2] = "eval_unlocked"

\* C19: a thread that waits - for a task, a stream, a module load, an
\* allocation or a callback - does not hold the global lock while it waits.
WaitsReleaseLock ==
    locks.state = "run" =>
        \A t \in Threads : locks.wait[t] # "none" => locks.mutex # t

(***************************************************************************)
(* jitc_eval() of one thread: root collection, traversal, sort, partition, *)
(* assembly and launch of each group, cleanup - and a fault in the middle  *)
(* of it.  The graph: r1, r2 = f(r1) where r1 has the size of r2 or is a   *)
(* scalar, r3 which is g(r2) (r2 then has the size of r3 or is a scalar)   *)
(* or stands alone, and r4, a scatter that is queued as a side effect.     *)
(***************************************************************************)
\* Calls of jit_eval() in one run.
MaxEvals == 3

EvalVars == 1..4

\* Array sizes of the graph.
EvalSizes == 1..MaxSize

\* A variable of the table.  data is "none", "allocated" (the output buffer
\* of a kernel that has not run) or "valid"; payload says what the variable
\* carries on creation: a statement, a literal or evaluated data.
EvalVariable(size, dep, se, ref_int, payload, flag, ref_se) ==
    [size |-> size, dep |-> IF payload = "stmt" THEN dep ELSE << >>,
     data |-> IF payload = "data" THEN "valid" ELSE "none",
     literal |-> payload = "literal", stmt |-> payload = "stmt",
     side_effect |-> se, void |-> se, output_flag |-> flag, reg_index |-> 0,
     ref_count_ext |-> 1, ref_count_int |-> ref_int, ref_count_se |-> ref_se,
     cleanups |-> 0]

\* What the user scheduled: r1, r2, r3 in any order, or some of them.
ScheduledLists ==
    {<< >>, <<1>>, <<2>>, <<3>>, <<1, 2>>, <<2, 1>>, <<1, 3>>, <<3, 1>>, <<2, 3>>,
     <<3, 2>>, <<1, 2, 3>>, <<1, 3, 2>>, <<2, 1, 3>>, <<2, 3, 1>>, <<3, 1, 2>>,
     <<3, 2, 1>>}

InitEval ==
    /\ Start(1, 1, 1, 0, 0, 0, 0, 0, "unset")
    /\ PoolIdle
    /\ call = [state |-> "none"]
    /\ kcache = [state |-> "none"]
    /\ locks = [state |-> "none"]
    /\ cpu = [state |-> "none"]
    /\ \E n2 \in EvalSizes, n3 \in EvalSizes, n4 \in {1, MaxSize},
          sched \in ScheduledLists, payload \in {"stmt", "literal", "data"},
          stale \in BOOLEAN, dirty \in {0, 3}, chained \in BOOLEAN :
        \E n1 \in {1, n2} :
            \* a literal is not scheduled by itself
            /\ payload = "literal" => 1 \notin Range(sched)
            \* a dependency has the size of its dependent or is a scalar
            /\ chained => n2 \in {1, n3}
            /\ evalq = [state |-> "run", pc |-> "idle",
                 v |-> <<EvalVariable(n1, << >>, FALSE, 1, payload, stale, 0),
                         EvalVariable(n2, <<1>>, FALSE, IF chained THEN 1 ELSE 0,
                                      "stmt", FALSE, 0),
                         EvalVariable(n3, IF chained THEN <<2>> ELSE << >>, FALSE, 0,
                                      "stmt", stale,
                                      IF dirty = 3 THEN 1 ELSE 0),
                         EvalVariable(n4, << >>, TRUE, 0, "stmt", FALSE, 0)>>,
                 scheduled |-> sched, side_effects |-> <<4>>,
                 schedule |-> << >>, schedule_groups |-> << >>, visited |-> {},
                 roots |-> {}, group |-> 0, evals |-> 0, payload |-> payload,
                 assembled_groups |-> << >>, launched_groups |-> << >>,
                 failure |-> "none", before |-> << >>, done |-> FALSE,
                 launched |-> {}, fault |-> "none", fault_launched |-> 0,
                 pending |-> {}, cleaned |-> FALSE, evals_after_fault |-> 0]

\* A faulty traversal that resets the output flag at every visit.
first_visit_reset_always(w, index) ==
    [w EXCEPT !.visited = @ \cup {<<0, index>>}, !.v[index].output_flag = FALSE]

\* if (visited.emplace(0, index).second) v->output_flag = false;
first_visit_reset(w, index) ==
    IF <<0, index>> \in w.visited THEN w
    ELSE [w EXCEPT !.visited = @ \cup {<<0, index>>}, !.v[index].output_flag = FALSE]

RECURSIVE traverse_deps(_, _, _, _)
RECURSIVE jitc_var_traverse(_, _, _)
\* jitc_var_traverse(size, index) on w = [visited, schedule, v, roots].
jitc_var_traverse(w, size, index) ==
    IF <<size, index>> \in w.visited THEN w
    ELSE LET w1 == traverse_deps([w EXCEPT !.visited = @ \cup {<<size, index>>}],
                                 size, w.v[index].dep, 1)
             w2 == first_visit_reset(w1, index)
         IN  [w2 EXCEPT !.schedule = Append(@, [size |-> size, index |-> index])]

traverse_deps(w, size, dep, i) ==
    IF i > Len(dep) THEN w
    ELSE traverse_deps(jitc_var_traverse(w, size, dep[i]), size, dep, i + 1)

RECURSIVE collect_roots(_, _, _)
\* The loop over one source list (ts->scheduled or ts->side_effects).
collect_roots(w, source, i) ==
    IF i > Len(source) THEN w
    ELSE LET index == source[i]
             v     == w.v[index]
         IN  IF v.ref_count_ext = 0 \/ v.data # "none"
             THEN collect_roots(w, source, i + 1)
             ELSE LET w1 == jitc_var_traverse(w, v.size, index)
                  IN  collect_roots([w1 EXCEPT !.v[index].output_flag = ~v.void,
                                               !.roots = @ \cup {index}],
                                    source, i + 1)

\* A faulty comparison that looks at the index only.
ScheduleBefore_by_index(a, b) == a.index < b.index

\* A faulty comparison that puts larger indices first.
ScheduleBefore_descending(a, b) ==
    a.size > b.size \/ (a.size = b.size /\ a.index > b.index)

\* The comparison of std::sort: larger sizes first, then smaller indices.
ScheduleBefore(a, b) == a.size > b.size \/ (a.size = b.size /\ a.index < b.index)

RECURSIVE sort_insert(_, _)
\* x is put in front of the first entry it is ordered before.
sort_insert(q, x) ==
    IF q = << >> THEN <<x>>
    ELSE IF ScheduleBefore(x, Head(q)) THEN <<x>> \o q
         ELSE <<Head(q)>> \o sort_insert(Tail(q), x)

RECURSIVE SortSchedule(_)
\* std::sort(schedule.begin(), schedule.end(), ...)
SortSchedule(q) ==
    IF q = << >> THEN << >>
    ELSE sort_insert(SortSchedule(SubSeq(q, 1, Len(q) - 1)), q[Len(q)])

RECURSIVE partition_loop(_, _, _)
\* The loop that closes a group where the size changes; (size, start, end).
partition_loop(schedule, cur, i) ==
    IF i > Len(schedule)
    THEN <<[size |-> schedule[cur].size, start |-> cur, end |-> Len(schedule) + 1]>>
    ELSE IF schedule[i - 1].size # schedule[i].size
         THEN <<[size |-> schedule[cur].size, start |-> cur, end |-> i]>>
                  \o partition_loop(schedule, i, i + 1)
         ELSE partition_loop(schedule, cur, i + 1)

\* A faulty partition that always makes one group.
partition_groups_single(schedule) ==
    <<[size |-> schedule[1].size, start |-> 1, end |-> Len(schedule) + 1]>>

\* Partition into groups of matching size: one group if the first and the
\* last entry have the same size, otherwise the loop.
partition_groups(schedule) ==
    IF schedule[1].size = schedule[Len(schedule)].size
    THEN <<[size |-> schedule[1].size, start |-> 1, end |-> Len(schedule) + 1]>>
    ELSE partition_loop(schedule, 1, 2)

\* The variables of a group.
GroupVars(e, g) == {e.schedule[i].index : i \in g.start..(g.end - 1)}

\* The variables of the groups from group k on.
VarsFrom(e, k) ==
    UNION {GroupVars(e, e.schedule_groups[j]) : j \in k..Len(e.schedule_groups)}

\* jitc_eval() up to the loop over the groups: returns at once when nothing
\* is queued; otherwise the roots are traversed, both lists are cleared, and
\* the schedule is sorted and partitioned.
EvalBegin ==
    /\ evalq.state = "run"
    /\ evalq.pc = "idle"
    /\ evalq.evals < MaxEvals
    /\ LET after == IF evalq.fault # "none" THEN evalq.evals_after_fault + 1
                    ELSE evalq.evals_after_fault
           w0 == [visited |-> {}, schedule |-> << >>, v |-> evalq.v, roots |-> {}]
           w1 == collect_roots(w0, evalq.scheduled, 1)
           w2 == collect_roots(w1, evalq.side_effects, 1)
           sorted == SortSchedule(w2.schedule)
       IN  IF evalq.scheduled = << >> /\ evalq.side_effects = << >>
           THEN evalq' = [evalq EXCEPT !.evals = @ + 1, !.evals_after_fault = after]
           ELSE IF w2.schedule = << >>
           THEN evalq' = [evalq EXCEPT !.evals = @ + 1, !.evals_after_fault = after,
                              !.v = w2.v, !.visited = w2.visited, !.schedule = << >>,
                              !.schedule_groups = << >>, !.roots = w2.roots,
                              !.assembled_groups = << >>, !.launched_groups = << >>,
                              !.scheduled = << >>, !.side_effects = << >>]
           ELSE evalq' = [evalq EXCEPT !.pc = "assemble", !.group = 1,
                              !.v = w2.v, !.visited = w2.visited, !.schedule = sorted,
                              !.schedule_groups = partition_groups(sorted),
                              !.roots = w2.roots, !.done = FALSE,
                              !.assembled_groups = << >>, !.launched_groups = << >>,
                              !.scheduled = << >>, !.side_effects = << >>]
    /\ UNCHANGED <<loopVars, scanVars, call, kcache, locks, cpu>>

\* Faulty sanity checks that let a dirty variable pass.
sanity_checks_no_dirty(x, size) ==
    IF x.ref_count_int = 0 /\ x.ref_count_ext = 0 THEN "unreferenced"
    ELSE IF x.size # 1 /\ x.size # size THEN "size"
    ELSE IF x.data = "none" /\ ~x.literal /\ ~x.stmt THEN "no statement"
    ELSE IF x.literal /\ x.data # "none" THEN "literal and evaluated"
    ELSE "ok"

\* The sanity checks of jitc_assemble() that end in jitc_fail(), for
\* variable x in a group of the given size.
sanity_checks(x, size) ==
    IF x.ref_count_int = 0 /\ x.ref_count_ext = 0 THEN "unreferenced"
    ELSE IF x.size # 1 /\ x.size # size THEN "size"
    ELSE IF x.data = "none" /\ ~x.literal /\ ~x.stmt THEN "no statement"
    ELSE IF x.literal /\ x.data # "none" THEN "literal and evaluated"
    ELSE IF x.ref_count_se # 0 THEN "dirty"
    ELSE "ok"

RECURSIVE assemble_loop(_, _, _, _)
\* The loop of jitc_assemble() over the group g from position i: each
\* variable is checked; an output of the group's size without data gets a
\* buffer from jitc_malloc(), and each gets the next register (n_regs
\* starts at 1 on the LLVM backend).  The loop stops at the first failing
\* check.
assemble_loop(v, schedule, g, i) ==
    IF i = g.end THEN [v |-> v, fail |-> "ok"]
    ELSE LET index == schedule[i].index
             x     == v[index]
             fail  == sanity_checks(x, g.size)
             n_regs == 1 + (i - g.start)
         IN  IF fail # "ok" THEN [v |-> v, fail |-> fail]
             ELSE IF x.data = "none" /\ x.output_flag /\ x.size = g.size
             THEN assemble_loop([v EXCEPT ![index].data = "allocated",
                                          ![index].reg_index = n_regs],
                                schedule, g, i + 1)
             ELSE assemble_loop([v EXCEPT ![index].reg_index = n_regs],
                                schedule, g, i + 1)

\* jitc_assemble() of the current group.  After the loop the kernel text is
\* emitted; a failing check is fatal (jitc_fail) and ends the process.
EvalAssemble ==
    /\ evalq.state = "run"
    /\ evalq.pc = "assemble"
    /\ LET g == evalq.schedule_groups[evalq.group]
           r == assemble_loop(evalq.v, evalq.schedule, g, g.start)
       IN  IF r.fail = "ok"
           THEN evalq' = [evalq EXCEPT !.pc = "run", !.v = r.v,
                                       !.assembled_groups = Append(@, evalq.group)]
           ELSE evalq' = [evalq EXCEPT !.pc = "failed", !.v = r.v,
                                       !.failure = r.fail]
    /\ UNCHANGED <<loopVars, scanVars, call, kcache, locks, cpu>>

\* jitc_run() of the current group: the kernel is launched and will fill
\* the buffers of the group.  After the last group the cleanup pass follows.
EvalRun ==
    /\ evalq.state = "run"
    /\ evalq.pc = "run"
    /\ LET g == evalq.schedule_groups[evalq.group]
           last == evalq.group = Len(evalq.schedule_groups)
       IN  evalq' = [evalq EXCEPT
                !.pc = IF last THEN "cleanup" ELSE "assemble",
                !.group = IF last THEN @ ELSE @ + 1,
                !.launched = @ \cup GroupVars(evalq, g),
                !.launched_groups = Append(@, evalq.group),
                !.v = [i \in EvalVars |->
                        IF i \in GroupVars(evalq, g) /\ evalq.v[i].data = "allocated"
                        THEN [evalq.v[i] EXCEPT !.data = "valid"]
                        ELSE evalq.v[i]]]
    /\ UNCHANGED <<loopVars, scanVars, call, kcache, locks, cpu>>

\* jitc_assemble() or jitc_run() raises (a variable of the wrong thread
\* state, a compiler or driver error): the exception leaves jitc_eval().
EvalFault ==
    /\ evalq.state = "run"
    /\ evalq.pc \in {"assemble", "run"}
    /\ evalq.fault = "none"
    /\ evalq' = [evalq EXCEPT
            !.pc = "idle", !.evals = @ + 1,
            !.fault = evalq.pc, !.fault_launched = evalq.group - 1,
            !.pending = VarsFrom(evalq, evalq.group) \ evalq.launched]
    /\ UNCHANGED <<loopVars, scanVars, call, kcache, locks, cpu>>

\* A faulty cleanup that leaves the flags of the variable set.
cleanup_variable_keep_flags(v, index) ==
    LET x  == v[index]
        v1 == [v EXCEPT ![index] =
                  [x EXCEPT !.stmt = FALSE, !.cleanups = @ + 1,
                            !.ref_count_ext = IF x.side_effect THEN @ - 1 ELSE @]]
    IN  [j \in EvalVars |->
            IF j \in Range(x.dep) THEN [v1[j] EXCEPT !.ref_count_int = @ - 1]
            ELSE v1[j]]

\* A faulty cleanup that keeps the external reference of a side effect.
cleanup_variable_keep_ref(v, index) ==
    LET x  == v[index]
        v1 == [v EXCEPT ![index] =
                  [x EXCEPT !.dep = << >>, !.stmt = FALSE, !.cleanups = @ + 1,
                            !.output_flag = FALSE, !.side_effect = FALSE]]
    IN  [j \in EvalVars |->
            IF j \in Range(x.dep) THEN [v1[j] EXCEPT !.ref_count_int = @ - 1]
            ELSE v1[j]]

\* The cleanup of one output or side effect: its edges are copied and
\* zeroed, statement and flags are cleared, a side effect gives up its
\* external reference (jitc_var_dec_ref_ext) and every former dependency one
\* internal reference (jitc_var_dec_ref_int).
cleanup_variable(v, index) ==
    LET x  == v[index]
        v1 == [v EXCEPT ![index] =
                  [x EXCEPT !.dep = << >>, !.stmt = FALSE, !.cleanups = @ + 1,
                            !.output_flag = FALSE, !.side_effect = FALSE,
                            !.ref_count_ext = IF x.side_effect THEN @ - 1 ELSE @]]
    IN  [j \in EvalVars |->
            IF j \in Range(x.dep) THEN [v1[j] EXCEPT !.ref_count_int = @ - 1]
            ELSE v1[j]]

RECURSIVE cleanup_pass(_, _, _)
\* The cleanup pass over the schedule: the register index of every entry is
\* reset, and outputs and side effects are cleaned up.
cleanup_pass(v, schedule, i) ==
    IF i > Len(schedule) THEN v
    ELSE LET index == schedule[i].index
             v0    == [v EXCEPT ![index].reg_index = 0]
         IN  IF ~(v0[index].output_flag \/ v0[index].side_effect)
             THEN cleanup_pass(v0, schedule, i + 1)
             ELSE cleanup_pass(cleanup_variable(v0, index), schedule, i + 1)

\* The cleanup pass, and jitc_eval() returns.
EvalCleanup ==
    /\ evalq.state = "run"
    /\ evalq.pc = "cleanup"
    /\ evalq' = [evalq EXCEPT
            !.pc = "idle", !.evals = @ + 1,
            !.v = cleanup_pass([i \in EvalVars |-> [evalq.v[i] EXCEPT !.cleanups = 0]],
                               evalq.schedule, 1),
            !.before = evalq.v, !.done = TRUE,
            !.cleaned = evalq.fault # "none" \/ @,
            !.evals_after_fault = IF evalq.fault # "none" THEN @ + 1 ELSE @]
    /\ UNCHANGED <<loopVars, scanVars, call, kcache, locks, cpu>>

NextEval ==
    \/ EvalBegin
    \/ EvalAssemble
    \/ EvalRun
    \/ EvalFault
    \/ EvalCleanup

\* The evaluations of one thread, one of which may fail.
SpecEval == InitEval /\ [][NextEval]_vars

\* A fault was raised after a group was launched, and the thread has since
\* called jit_eval() again and that call has returned.
NextEvalReturned ==
    /\ evalq.state = "run"
    /\ evalq.fault # "none" /\ evalq.fault_launched >= 1
    /\ evalq.pc = "idle" /\ evalq.evals_after_fault >= 1

\* After a fault that followed a launch no cleanup pass has run, and the
\* scheduled variables still have their statements and dependency edges.
FaultSkipsCleanup ==
    (evalq.state = "run" /\ evalq.fault # "none" /\ evalq.fault_launched >= 1
        /\ evalq.evals_after_fault = 0) =>
        /\ ~evalq.cleaned
        /\ \A i \in 1..Len(evalq.schedule) :
               LET x == evalq.v[evalq.schedule[i].index]
               IN  /\ x.stmt \/ (evalq.schedule[i].index = 1 /\ evalq.payload # "stmt")
                   /\ (evalq.schedule[i].index = 2 => x.dep = <<1>>)

\* C20: when a fault is raised in jitc_eval() after a group was launched,
\* the variables of the groups that were not launched are evaluated by the
\* next jit_eval() of the thread: once that call has returned, their
\* kernels have been launched.
FaultedWorkReevaluated ==
    NextEvalReturned => evalq.pending \subseteq evalq.launched

(***************************************************************************)
(* The task graph of the CPU backend: every work item is handed to the     *)
(* thread pool by task_submit_dep() with the tasks it has to wait for.     *)
(* One thread submits primitives, evaluations, aggregations and host       *)
(* functions; the workers of the pool run the units of every task whose    *)
(* parents have finished, in any order.                                    *)
(***************************************************************************)
\* Work items the thread submits in one run.
MaxItems == 2

\* Largest number of groups of one evaluation.
MaxGroups == 2

\* Largest number of entries of an aggregation batch.
MaxBatch == 3

RECURSIVE TaskFinished(_, _)
\* Task id of the pool has finished: its parents have, and all its units
\* have run (a barrier has no units).
TaskFinished(nodes, id) ==
    /\ nodes[id].done = 0..(nodes[id].units - 1)
    /\ \A d \in nodes[id].deps : TaskFinished(nodes, d)

\* A unit of task id has started.
TaskStarted(nodes, id) == nodes[id].done # {}

\* task_submit_dep(pool, parent, parent_count, size, func, payload): the new
\* task waits for its parents (a null parent is skipped) and has `size`
\* units; kind and ref stand for func and payload.
task_submit_dep(c, parents, size, kind, ref) ==
    [c EXCEPT !.nodes = Append(@, [kind |-> kind, item |-> c.items + 1,
                                   deps |-> parents \ {0}, units |-> size,
                                   done |-> {}, pre |-> c.task, ref |-> ref])]

\* jitc_submit_cpu(type, func, width, size): the new task depends on
\* jitc_task and becomes jitc_task.
jitc_submit_cpu_dep(c, size, kind, ref) ==
    LET c1 == task_submit_dep(c, {c.task}, size, kind, ref)
    IN  [c1 EXCEPT !.task = Len(c1.nodes)]

RECURSIVE jitc_run_groups(_, _, _)
\* The loop of jitc_eval() over the groups: jitc_run() submits one task per
\* group, each with ts->task as only parent, and collects them in
\* scheduled_tasks.
jitc_run_groups(c, blocks, g) ==
    IF g > Len(blocks) THEN c
    ELSE jitc_run_groups(task_submit_dep(c, {c.task}, blocks[g], "group", g),
                         blocks, g + 1)

\* A faulty end of jitc_eval(): the task of the last group becomes ts->task.
jitc_eval_install_last(c, scheduled_tasks) ==
    [c EXCEPT !.task = scheduled_tasks[Len(scheduled_tasks)]]

\* The end of jitc_eval() on the LLVM backend: the only task, or a barrier
\* that waits for all of scheduled_tasks, becomes ts->task.
jitc_eval_install(c, scheduled_tasks) ==
    IF Len(scheduled_tasks) = 1
    THEN [c EXCEPT !.task = scheduled_tasks[1]]
    ELSE LET c1 == task_submit_dep(c, Range(scheduled_tasks), 0, "barrier", 0)
         IN  [c1 EXCEPT !.task = Len(c1.nodes)]

\* A faulty jitc_aggregate() whose second task does not wait for the first.
jitc_aggregate_free_early(c, size) ==
    LET batch == Len(c.batch) + 1
        c1 == [c EXCEPT !.batch = Append(@, [size |-> size, work_unit_size |-> size,
                                             written |-> {}, freed |-> 0,
                                             read_freed |-> FALSE])]
        c2 == jitc_submit_cpu_dep(c1, 1, "aggregate", batch)
        c3 == task_submit_dep(c2, {}, 1, "free", batch)
    IN  [c3 EXCEPT !.task = Len(c3.nodes)]

\* jitc_aggregate() on the LLVM backend: one task writes the batch in
\* work_units units, a second task of one unit frees it.
jitc_aggregate(c, size) ==
    LET work_unit_size == IF c.pool > 1 THEN c.block ELSE size
        work_units == IF c.pool > 1
                      THEN (size + work_unit_size - 1) \div work_unit_size ELSE 1
        batch == Len(c.batch) + 1
        c1 == [c EXCEPT !.batch = Append(@, [size |-> size,
                                             work_unit_size |-> work_unit_size,
                                             written |-> {}, freed |-> 0,
                                             read_freed |-> FALSE])]
        c2 == jitc_submit_cpu_dep(c1, work_units, "aggregate", batch)
    IN  jitc_submit_cpu_dep(c2, 1, "free", batch)

\* A faulty jitc_enqueue_host_func() that runs the callback inline whatever
\* the thread has submitted.
jitc_enqueue_host_func_inline(c) ==
    [c EXCEPT !.host = Append(@, [mode |-> "inline", runs |-> 1, lock |-> "released",
                                  had_task |-> c.task # 0,
                                  unfinished |-> {id \in 1..Len(c.nodes) :
                                                     ~TaskFinished(c.nodes, id)}])]

\* jitc_enqueue_host_func() on the LLVM backend: without a current task the
\* callback runs in the call, inside unlock_guard(state.lock); otherwise it
\* is submitted as a task of one unit.
jitc_enqueue_host_func(c) ==
    IF c.task = 0
    THEN jitc_enqueue_host_func_inline(c)
    ELSE LET h  == Len(c.host) + 1
             c1 == [c EXCEPT !.host = Append(@, [mode |-> "task", runs |-> 0,
                                                 lock |-> "none",
                                                 had_task |-> TRUE,
                                                 unfinished |-> {}])]
         IN  jitc_submit_cpu_dep(c1, 1, "host", h)

\* What unit `index` of task t does to the pool's state.
cpu_unit_effect(c, t, index) ==
    CASE t.kind = "aggregate" ->
            LET b     == c.batch[t.ref]
                start == index * b.work_unit_size
                end   == Min(start + b.work_unit_size, b.size)
            IN  [c EXCEPT !.batch[t.ref].written = @ \cup ((start + 1)..end),
                          !.batch[t.ref].read_freed = @ \/ (b.freed > 0 /\ start < end)]
      [] t.kind = "free" -> [c EXCEPT !.batch[t.ref].freed = @ + 1]
      [] t.kind = "host" ->
            [c EXCEPT !.host[t.ref].runs = @ + 1,
                      !.host[t.ref].unfinished =
                          {id \in 1..Len(c.nodes) :
                              c.nodes[id].item < t.item /\ ~TaskFinished(c.nodes, id)}]
      [] OTHER -> c

InitCpu ==
    /\ Start(1, 1, 1, 0, 0, 0, 0, 0, "unset")
    /\ PoolIdle
    /\ call = [state |-> "none"]
    /\ kcache = [state |-> "none"]
    /\ locks = [state |-> "none"]
    /\ evalq = [state |-> "none"]
    /\ \E pool \in PoolSizes, block \in 1..MaxBlock :
        /\ (pool = 1 => block = 1)
        /\ cpu = [state |-> "run", pool |-> pool, block |-> block, task |-> 0,
                  items |-> 0, nodes |-> << >>, batch |-> << >>, host |-> << >>]

\* A parallel primitive submits a task of one or two units.
CpuPrimitive ==
    /\ cpu.state = "run"
    /\ cpu.items < MaxItems
    /\ \E size \in 1..2 :
        cpu' = [jitc_submit_cpu_dep(cpu, size, "primitive", 0) EXCEPT !.items = @ + 1]
    /\ UNCHANGED <<loopVars, scanVars, call, kcache, locks, evalq>>

\* jitc_eval() with one to MaxGroups groups, all of one or all of two blocks.
CpuEval ==
    /\ cpu.state = "run"
    /\ cpu.items < MaxItems
    /\ \E groups \in 1..MaxGroups, n \in 1..2 :
        \E blocks \in {[g \in 1..groups |-> n]} :
            LET first == Len(cpu.nodes)
                c1 == jitc_run_groups(cpu, blocks, 1)
                scheduled_tasks == [g \in 1..groups |-> first + g]
            IN  cpu' = [jitc_eval_install(c1, scheduled_tasks) EXCEPT !.items = @ + 1]
    /\ UNCHANGED <<loopVars, scanVars, call, kcache, locks, evalq>>

\* jit_aggregate() of a batch of up to MaxBatch entries.
CpuAggregate ==
    /\ cpu.state = "run"
    /\ cpu.items < MaxItems
    /\ \E size \in 0..MaxBatch :
        cpu' = [jitc_aggregate(cpu, size) EXCEPT !.items = @ + 1]
    /\ UNCHANGED <<loopVars, scanVars, call, kcache, locks, evalq>>

\* jit_enqueue_host_func()
CpuHostFunc ==
    /\ cpu.state = "run"
    /\ cpu.items < MaxItems
    /\ cpu' = [jitc_enqueue_host_func(cpu) EXCEPT !.items = @ + 1]
    /\ UNCHANGED <<loopVars, scanVars, call, kcache, locks, evalq>>

\* A worker of the pool runs one unit of a task whose parents have finished.
CpuRunUnit ==
    /\ cpu.state = "run"
    /\ \E id \in 1..Len(cpu.nodes) :
        /\ \A d \in cpu.nodes[id].deps : TaskFinished(cpu.nodes, d)
        /\ \E index \in (0..(cpu.nodes[id].units - 1)) \ cpu.nodes[id].done :
            cpu' = [cpu_unit_effect(cpu, cpu.nodes[id], index)
                        EXCEPT !.nodes[id].done = @ \cup {index}]
    /\ UNCHANGED <<loopVars, scanVars, call, kcache, locks, evalq>>

NextCpu ==
    \/ CpuPrimitive
    \/ CpuEval
    \/ CpuAggregate
    \/ CpuHostFunc
    \/ CpuRunUnit

\* One thread that submits work to the pool, and the pool.
SpecCpu == InitCpu /\ [][NextCpu]_vars

HostTask(h) ==
    IF \E id \in 1..Len(cpu.nodes) : cpu.nodes[id].kind = "host" /\ cpu.nodes[id].ref = h
    THEN CHOOSE id \in 1..Len(cpu.nodes) :
            cpu.nodes[id].kind = "host" /\ cpu.nodes[id].ref = h
    ELSE 0

BatchFreedOnce ==
    cpu.state = "run" =>
        \A id \in 1..Len(cpu.nodes) :
            cpu.nodes[id].kind = "free" =>
                LET b == cpu.batch[cpu.nodes[id].ref]
                IN  /\ b.freed <= 1
                    /\ b.freed = 1 => b.written = 1..b.size
                    /\ ~b.read_freed
                    /\ b.freed = 1 <=> TaskFinished(cpu.nodes, id)

\* A batch of MaxBatch entries was written in several units and then freed.
BatchFreedAfterUnits ==
    /\ cpu.state = "run"
    /\ \E id \in 1..Len(cpu.nodes) :
        /\ cpu.nodes[id].kind = "aggregate"
        /\ cpu.nodes[id].units > 1
        /\ cpu.batch[cpu.nodes[id].ref].size = MaxBatch
        /\ cpu.batch[cpu.nodes[id].ref].freed = 1

\* C24: a call of jit_mkperm() with bucket_count = 0 fails with an error for
\* every size, size 0 included, and leaves perm and offsets as they were and
\* the task queue empty.
MkpermZeroBucketsFails ==
    (call.state # "none" /\ call.prim = "mkperm" /\ call.bucket_count = 0
        /\ call.state # "ready") =>
        /\ call.state = "failed"
        /\ mem[call.perm] = [i \in 1..call.size |-> call.garbage]
        /\ mem[3] = <<call.garbage>>
        /\ tasks = << >>

\* The positions of the calls of cuModuleLoadData() in the log of the launch.
LoadAttempts ==
    {i \in 1..Len(kcache.log) : kcache.log[i] \in {"load_ok", "load_oom", "load_error"}}

\* C25: a launch calls cuModuleLoadData() at most twice; a second call
\* follows a first that returned out-of-memory, with the trim of the
\* allocator's pools between the two; if the last call fails the launch
\* ends with an error without installing the key and without launching.
ModuleLoadRetry ==
    kcache.state # "none" =>
        LET log == kcache.log
        IN  /\ Cardinality(LoadAttempts) <= 2
            /\ \A i \in LoadAttempts : \A j \in LoadAttempts :
                   i < j => /\ log[i] = "load_oom"
                            /\ j = i + 2
                            /\ log[i + 1] = "trim"
            /\ \A i \in LoadAttempts :
                   (log[i] # "load_ok" /\ \A j \in LoadAttempts : j <= i) =>
                       /\ log[Len(log)] = "fault"
                       /\ \A k \in 1..Len(log) : log[k] \notin {"install", "launch"}
                       /\ kcache.key \notin kcache.kernel_cache
                       /\ kcache.state = "idle"

\* The second attempt, after the trim, ran out of memory as well, for a
\* kernel that had just been compiled and written to disk.
ModuleLoadFailedTwice ==
    /\ kcache.state = "idle"
    /\ Len(kcache.log) >= 7
    /\ SubSeq(kcache.log, Len(kcache.log) - 4, Len(kcache.log))
           = <<"disk_write", "load_oom", "trim", "load_oom", "fault">>

\* jitc_eval() has built a schedule and has not returned from the cleanup.
ScheduleBuilt == evalq.state = "run" /\ evalq.pc \in {"assemble", "run", "cleanup", "failed"}

\* C26: a built schedule is strictly ordered by (size descending, index
\* ascending), so no (size, index) pair occurs twice.  The groups are
\* non-empty, follow one another without gap from the first to the last
\* entry, hold entries of one size each, and have pairwise distinct sizes;
\* each group is assembled once and launched once, in order, and when the
\* cleanup is reached every group has been.
ScheduleGroupsWellFormed ==
    (evalq.state = "run" /\ evalq.schedule # << >>) =>
        LET schedule == evalq.schedule
            groups   == evalq.schedule_groups
            n        == Len(groups)
        IN  /\ \A i \in 1..Len(schedule) : \A j \in 1..Len(schedule) :
                   i < j => \/ schedule[i].size > schedule[j].size
                            \/ /\ schedule[i].size = schedule[j].size
                               /\ schedule[i].index < schedule[j].index
            /\ n >= 1
            /\ groups[1].start = 1
            /\ groups[n].end = Len(schedule) + 1
            /\ \A k \in 1..n :
                   /\ groups[k].start < groups[k].end
                   /\ k < n => groups[k].end = groups[k + 1].start
                   /\ \A i \in groups[k].start..(groups[k].end - 1) :
                          schedule[i].size = groups[k].size
            /\ \A k \in 1..n : \A l \in 1..n : k # l => groups[k].size # groups[l].size
            /\ \E a \in 0..n : evalq.assembled_groups = [k \in 1..a |-> k]
            /\ \E l \in 0..n : evalq.launched_groups = [k \in 1..l |-> k]
            /\ Len(evalq.launched_groups) <= Len(evalq.assembled_groups)
            /\ Len(evalq.assembled_groups) <= Len(evalq.launched_groups) + 1
            /\ evalq.pc = "cleanup" => Len(evalq.launched_groups) = n

\* An evaluation of three groups, with a scalar that is scheduled in two of
\* them, has reached the cleanup.
ThreeGroupsLaunched ==
    /\ evalq.state = "run" /\ evalq.pc = "cleanup"
    /\ Len(evalq.schedule_groups) = 3
    /\ \E i \in 1..Len(evalq.schedule) : \E j \in 1..Len(evalq.schedule) :
        i # j /\ evalq.schedule[i].index = evalq.schedule[j].index

\* C27: when the root collection has ended, and until the cleanup pass
\* runs, the output flag of a visited variable is set exactly if the
\* variable is a collected root of non-void type.
OutputFlagsAfterCollection ==
    (evalq.state = "run" /\ evalq.pc \in {"assemble", "run", "cleanup"}) =>
        \A i \in EvalVars :
            (\E size \in 0..MaxSize : <<size, i>> \in evalq.visited) =>
                (evalq.v[i].output_flag <=> (i \in evalq.roots /\ ~evalq.v[i].void))

\* The scalar r1 carried a stale output flag (as r3, which was not
\* scheduled, still does), was collected as a root and was also reached as
\* the dependency of r2 under a larger size.
RootVisitedTwice ==
    /\ evalq.state = "run" /\ evalq.pc = "assemble"
    /\ {1, 2} \subseteq evalq.roots
    /\ evalq.v[1].size = 1 /\ evalq.v[2].size > 1
    /\ <<evalq.v[2].size, 1>> \in evalq.visited
    /\ evalq.v[1].output_flag
    /\ evalq.v[3].output_flag /\ <<0, 3>> \notin evalq.visited

\* A variable is live while something refers to it.
Live(x) == x.ref_count_ext > 0 \/ x.ref_count_int > 0

\* C28: in every reachable state each live variable carries exactly one of
\* a data pointer, a literal value and a statement.
ExactlyOnePayload ==
    evalq.state = "run" =>
        \A i \in EvalVars :
            Live(evalq.v[i]) =>
                Cardinality({p \in {"data", "literal", "stmt"} :
                    \/ p = "data" /\ evalq.v[i].data # "none"
                    \/ p = "literal" /\ evalq.v[i].literal
                    \/ p = "stmt" /\ evalq.v[i].stmt}) = 1

\* C29: a group that was assembled or launched holds no variable with a
\* non-zero side-effect reference count; the assembly of a group that holds
\* one ends in a fatal error, and that group is neither assembled nor
\* launched.
DirtyNeverAssembled ==
    evalq.state = "run" =>
        /\ \A k \in Range(evalq.assembled_groups) \cup Range(evalq.launched_groups) :
               \A i \in GroupVars(evalq, evalq.schedule_groups[k]) :
                   evalq.v[i].ref_count_se = 0
        /\ evalq.failure = "dirty" =>
               /\ evalq.pc = "failed"
               /\ evalq.group \notin Range(evalq.assembled_groups)
               /\ evalq.group \notin Range(evalq.launched_groups)
               /\ \E i \in GroupVars(evalq, evalq.schedule_groups[evalq.group]) :
                      evalq.v[i].ref_count_se # 0

\* The assembly of the second group stopped at a dirty variable after the
\* first group had been launched.
DirtyStopsAssembly ==
    /\ evalq.state = "run" /\ evalq.pc = "failed"
    /\ evalq.failure = "dirty"
    /\ evalq.launched_groups = <<1>>

\* C30: every entry of a group of a built schedule is a variable of the
\* group's size or of size 1, and the size check of the assembler never
\* fails.
GroupSizesCompatible ==
    evalq.state = "run" =>
        /\ \A k \in 1..Len(evalq.schedule_groups) :
               \A i \in GroupVars(evalq, evalq.schedule_groups[k]) :
                   evalq.v[i].size \in {evalq.schedule_groups[k].size, 1}
        /\ evalq.failure # "size"

\* A group of the largest size with a scalar in it has been assembled, in
\* an evaluation of several groups.
ScalarInLargeGroup ==
    /\ evalq.state = "run" /\ evalq.pc = "run" /\ evalq.group = 1
    /\ Len(evalq.schedule_groups) > 1
    /\ evalq.schedule_groups[1].size = MaxSize
    /\ \E i \in GroupVars(evalq, evalq.schedule_groups[1]) : evalq.v[i].size = 1


\* The indices of the schedule whose cleanup found a flag set.
CleanedUp ==
    {i \in EvalVars :
        /\ \E k \in 1..Len(evalq.schedule) : evalq.schedule[k].index = i
        /\ evalq.before[i].output_flag \/ evalq.before[i].side_effect}

\* jitc_eval() has returned after its cleanup pass.
EvalCompleted == evalq.state = "run" /\ evalq.pc = "idle" /\ evalq.done

\* C31: after jitc_eval() has completed, every scheduled variable has
\* register index 0, and every scheduled variable whose output flag or
\* side-effect flag was set has no dependency, no statement and both flags
\* clear; its external reference count went down by one exactly if it was a
\* side effect, and the internal reference count of each former dependency
\* went down by one for each cleaned-up variable that depended on it.
CleanupPostcondition ==
    EvalCompleted =>
        /\ \A k \in 1..Len(evalq.schedule) :
               evalq.v[evalq.schedule[k].index].reg_index = 0
        /\ \A i \in CleanedUp :
               LET b == evalq.before[i]
                   x == evalq.v[i]
               IN  /\ x.dep = << >>
                   /\ ~x.stmt
                   /\ ~x.output_flag
                   /\ ~x.side_effect
                   /\ x.ref_count_ext = b.ref_count_ext - (IF b.side_effect THEN 1 ELSE 0)
        /\ \A d \in EvalVars :
               evalq.v[d].ref_count_int = evalq.before[d].ref_count_int
                   - Cardinality({i \in CleanedUp : d \in Range(evalq.before[i].dep)})

\* An evaluation without fault has cleaned up the output r2 = f(r1), which
\* had a register, and the scatter r4.
OutputAndSideEffectCleaned ==
    /\ EvalCompleted
    /\ evalq.fault = "none"
    /\ {2, 4} \subseteq CleanedUp
    /\ evalq.before[2].dep = <<1>>
    /\ evalq.before[2].reg_index > 0
    /\ evalq.before[2].output_flag
    /\ evalq.before[4].side_effect


\* The number of entries of the schedule that name variable i.
ScheduleEntries(i) ==
    Cardinality({k \in 1..Len(evalq.schedule) : evalq.schedule[k].index = i})

\* C39: a variable that occurs in the schedule under several sizes is
\* cleaned up at most once by an evaluation: the pass that finds one of its
\* flags set clears both, so a later entry of the same variable is skipped,
\* and no reference count is decremented below zero.
CleanedAtMostOnce ==
    EvalCompleted =>
        \A i \in EvalVars :
            /\ evalq.v[i].cleanups = (IF i \in CleanedUp THEN 1 ELSE 0)
            /\ evalq.v[i].ref_count_ext >= 0
            /\ evalq.v[i].ref_count_int >= 0

\* The scalar output r2 = f(r1) was scheduled under its own size and under
\* the size of r3, and was cleaned up.
ScalarOutputScheduledTwice ==
    /\ EvalCompleted
    /\ 2 \in CleanedUp
    /\ ScheduleEntries(2) = 2
    /\ evalq.before[2].dep = <<1>>
    /\ evalq.v[2].cleanups = 1


Logged(e) == \E i \in 1..Len(kcache.log) : kcache.log[i] = e

\* 1 if the condition holds, else 0.
Count(b) == IF b THEN 1 ELSE 0

\* C32: in every state the counters of the kernel cache satisfy launches =
\* hits + soft misses + hard misses.  A call of jitc_run() that has launched
\* has added one to launches and one to exactly one other counter: hits if
\* the key was found in memory, soft misses if the kernel came from a cache
\* on disk, hard misses if it was compiled.  A call that failed before has
\* changed no counter.
CounterBalance ==
    kcache.state # "none" =>
        LET sum    == kcache.hits + kcache.soft_misses + kcache.hard_misses
            before == kcache.counted
        IN  /\ sum = kcache.kernel_launches
            /\ (kcache.state = "idle" /\ Logged("launch")) =>
                   /\ kcache.kernel_launches = before.launches + 1
                   /\ kcache.hits = before.hits + Count(Logged("mem_hit"))
                   /\ kcache.soft_misses = before.soft_misses
                          + Count(Logged("mem_miss") /\ kcache.cache_hit)
                   /\ kcache.hard_misses = before.hard_misses
                          + Count(Logged("compile") /\ ~kcache.cache_hit)
                   /\ kcache.cache_hit =>
                          (Logged("disk_hit") \/ kcache.g.uses_optix)
            /\ (kcache.state = "idle" /\ Logged("fault")) =>
                   /\ kcache.kernel_launches = before.launches
                   /\ kcache.hits = before.hits
                   /\ kcache.soft_misses = before.soft_misses
                   /\ kcache.hard_misses = before.hard_misses

\* A hit, a soft miss and a hard miss have been counted, and the last call
\* of jitc_run() has launched its kernel.
AllCountersMoved ==
    /\ kcache.state = "idle"
    /\ Logged("launch")
    /\ kcache.hits > 0
    /\ kcache.soft_misses > 0
    /\ kcache.hard_misses > 0
    /\ kcache.kernel_launches = 3


\* Thread t is inside an API function.
InLibrary(t) == locks.pc[t] # "idle"

\* C38: threads that call jitc_eval() do not deadlock - whenever a thread is
\* inside the library, some thread inside the library can take a step.  A
\* thread that is about to take the evaluator mutex does not hold the global
\* mutex; the evaluator mutex is held only by a thread between taking it and
\* leaving jitc_eval(); and on every way out of jitc_eval() - nothing
\* queued, empty schedule, completion, fault - the thread holds the global
\* mutex as it did on entry.
EvalLockDiscipline ==
    locks.state = "run" =>
        /\ (\E t \in Threads : InLibrary(t)) =>
               \E u \in Threads : InLibrary(u) /\ ENABLED ThreadStep(u)
        /\ \A t \in Threads :
               /\ locks.pc[t] = "eval_unlocked" => locks.mutex # t
               /\ locks.eval_mutex = t => InEval(t)
               /\ locks.pc[t] = "eval_done" =>
                      /\ locks.mutex = t
                      /\ locks.eval_mutex # t
                      /\ locks.exit[t] \in EvalExits \cup {"nothing_queued"}
               /\ locks.pc[t] = "eval" => locks.mutex = t

\* Thread 1 has left jitc_eval() by a fault while thread 2, which had to
\* wait for the evaluator mutex, has taken it and waits for the global one.
FaultExitOtherProceeds ==
    /\ locks.state = "run"
    /\ locks.pc[1] = "eval_done"
    /\ locks.exit[1] = "fault"
    /\ locks.pc[2] = "eval_locked"
    /\ locks.eval_mutex = 2
    /\ locks.mutex = 1


\* The errors cond() and init() raise by themselves.
BuilderErrors == {"cond: must be initialized first", "cond: invalid state", "init"}

\* C33: in recording mode a cond() that raises (not initialized, or already
\* closed) and an init() that raises (already initialized) leave m_state and
\* the identifier lists of the builder as they were.
RaisingCallLeavesBuilder ==
    [][(alive /\ loop.m_record /\ err' \in BuilderErrors) =>
            /\ loop'.m_state = loop.m_state
            /\ loop'.m_index_p = loop.m_index_p
            /\ loop'.m_index_in = loop.m_index_in
            /\ loop'.m_index_body = loop.m_index_body
            /\ loop'.m_index_out = loop.m_index_out]_vars


\* The Loop is one that has nothing left to undo: its recording was closed,
\* or it was never initialized, or it is a wavefront loop whose last cond()
\* returned false.
NothingToUndo ==
    \/ loop.m_record /\ loop.m_state = 3
    \/ loop.m_state = 0 /\ hist.calls = 0 /\ ~hist.inited
    \/ ~loop.m_record /\ hist.calls > 0 /\ pc = "after" /\ err = "none" /\ ~ret

\* C34: the destruction of a Loop whose recording closed normally, that was
\* never initialized, or whose wavefront ended with a false cond() rolls no
\* side effect back, does not write PostponeSideEffects, pops no mask and
\* releases no reference.
CleanDestroyDoesNothing ==
    [][(alive /\ ~alive' /\ NothingToUndo) =>
            /\ jit'.rollback = jit.rollback
            /\ jit'.set_flag = jit.set_flag
            /\ jit'.mask_pop = jit.mask_pop
            /\ side_effects' = side_effects
            /\ flags' = flags
            /\ mask_stack' = mask_stack
            /\ \A id \in 1..Len(var) :
                   id # loop.m_cond => var'[id].ref_count_ext = var[id].ref_count_ext]_vars


\* The external references variable id is held by: the arrays of the
\* program, the pending side effects and the mask stack.
RefsHeld(id) ==
    Cardinality({s \in DOMAIN slot : slot[s] = id})
        + Cardinality({k \in 1..Len(side_effects) : side_effects[k] = id})
        + Cardinality({k \in 1..Len(mask_stack) : mask_stack[k] = id})

\* C35: once a wavefront Loop is gone - after its last cond(), after it was
\* abandoned behind a cond() that returned true, or after a fault inside
\* cond() - every mask that cond() pushed has been popped once, so the mask
\* stack is as deep as before the loop, and every reference taken on a loop
\* variable has been released once, so each variable has the references of
\* its holders and no more.
WavefrontBalanced ==
    (pc # "start" /\ ~alive /\ hist.dtors = 1 /\ flags.LoopRecord = 0) =>
        /\ mask_stack = << >>
        /\ jit.mask_pop = jit.mask_push
        /\ \A id \in 1..Len(var) : var[id].ref_count_ext = RefsHeld(id)


\* The wavefront loop of the test program before anything is read back: the
\* only evaluations are those of cond().
InWavefrontLoop == flags.LoopRecord = 0 /\ alive /\ reads = 0 /\ err = "none"

\* C36: in wavefront mode each cond() evaluates once and returns true
\* exactly when the mask is true in some lane.  For a loop over
\* x = arange(n) with the condition x < L, lane 0 is enabled for L
\* iterations and no lane for more: cond() returns true while fewer than L
\* iterations have run and false in the call after the L-th, so the loop
\* ends after L iterations and L + 1 evaluations.
WavefrontCounts ==
    InWavefrontLoop =>
        /\ jit.eval = hist.calls
        /\ pc = "body" => (ret /\ hist.calls = hist.bodies + 1 /\ hist.bodies < cfg.limit)
        /\ pc = "loop" => (hist.calls = hist.bodies /\ hist.bodies <= cfg.limit)
        /\ pc = "after" => (~ret /\ hist.bodies = cfg.limit
                              /\ hist.calls = hist.bodies + 1)

\* A wavefront loop whose lanes ran different numbers of iterations has
\* ended after MaxLimit iterations.
WavefrontEnded ==
    /\ InWavefrontLoop
    /\ pc = "after"
    /\ cfg.limit = MaxLimit
    /\ cfg.sizes[1] = MaxSize
    /\ hist.bodies = MaxLimit
    /\ jit.eval = MaxLimit + 1

(***************************************************************************)
(* jit_mkperm() on the GPU: CUDAThreadState::jitc_mkperm() enqueues its    *)
(* kernels, copies and the event on the stream of the thread; the device   *)
(* runs the entries of the stream in order while the host goes on.         *)
(***************************************************************************)
\* Largest block_count of the launch configuration.
MaxBlocks == 2

\* Largest warp_count of the launch configuration.
MaxWarps == 2

\* device.shared_memory_bytes of the devices under study.
SharedBytes == {4, 8, 16}

\* The sizes, kernels and flags jitc_mkperm() derives from bucket_count, the
\* launch configuration and the shared memory of the device.
mkperm_variant(bucket_count, block_count, warp_count, shared_memory_bytes) ==
    LET bucket_size_1 == bucket_count * 4
    IN  IF bucket_size_1 * warp_count <= shared_memory_bytes
        THEN [variant |-> "tiny", bucket_size_1 |-> bucket_size_1,
              bucket_size_all |-> bucket_size_1 * block_count * warp_count,
              initialize_buckets |-> FALSE]
        ELSE IF bucket_size_1 <= shared_memory_bytes
        THEN [variant |-> "small", bucket_size_1 |-> bucket_size_1,
              bucket_size_all |-> bucket_size_1 * block_count,
              initialize_buckets |-> FALSE]
        ELSE [variant |-> "large", bucket_size_1 |-> bucket_size_1,
              bucket_size_all |-> bucket_size_1 * block_count,
              initialize_buckets |-> TRUE]

\* A faulty order of the statements: the event is recorded after phase 4
\* has been enqueued.
mkperm_statements_event_last(offsets, needs_transpose, initialize_buckets) ==
    <<[stmt |-> "malloc", buf |-> "buckets_1"]>>
    \o (IF offsets THEN <<[stmt |-> "malloc", buf |-> "counter"],
                          [stmt |-> "enqueue", op |-> "memset", uses |-> {"counter"}]>>
        ELSE << >>)
    \o <<[stmt |-> "enqueue", op |-> "phase_1", uses |-> {"buckets_1"}],
         [stmt |-> "enqueue", op |-> "prefix_sum", uses |-> {"buckets_1"}]>>
    \o (IF offsets THEN <<[stmt |-> "enqueue", op |-> "phase_3",
                           uses |-> {"buckets_1", "counter"}],
                          [stmt |-> "enqueue", op |-> "memcpy", uses |-> {"counter"}]>>
        ELSE << >>)
    \o <<[stmt |-> "enqueue", op |-> "phase_4", uses |-> {"buckets_1"}]>>
    \o (IF offsets THEN <<[stmt |-> "enqueue", op |-> "event", uses |-> {}],
                          [stmt |-> "synchronize"]>>
        ELSE << >>)
    \o <<[stmt |-> "free", buf |-> "buckets_1"],
         [stmt |-> "free", buf |-> IF offsets THEN "counter" ELSE "nullptr"],
         [stmt |-> "return"]>>

\* The statements of jitc_mkperm() after the choice of the variant, in
\* program order.  Without a transpose buckets_2 is buckets_1; counter is a
\* null pointer without an offsets table, and jitc_free() of it does
\* nothing.
mkperm_statements(offsets, needs_transpose, initialize_buckets) ==
    LET buckets_2 == IF needs_transpose THEN "buckets_2" ELSE "buckets_1"
    IN  <<[stmt |-> "malloc", buf |-> "buckets_1"]>>
        \o (IF needs_transpose THEN <<[stmt |-> "malloc", buf |-> "buckets_2"]>>
            ELSE << >>)
        \o (IF offsets THEN <<[stmt |-> "malloc", buf |-> "counter"],
                              [stmt |-> "enqueue", op |-> "memset",
                               uses |-> {"counter"}]>>
            ELSE << >>)
        \o (IF initialize_buckets THEN <<[stmt |-> "enqueue", op |-> "memset",
                                         uses |-> {"buckets_1"}]>>
            ELSE << >>)
        \o <<[stmt |-> "enqueue", op |-> "phase_1", uses |-> {"buckets_1"}]>>
        \o (IF needs_transpose THEN <<[stmt |-> "enqueue", op |-> "transpose",
                                      uses |-> {"buckets_1", "buckets_2"}]>>
            ELSE << >>)
        \o <<[stmt |-> "enqueue", op |-> "prefix_sum", uses |-> {buckets_2}]>>
        \o (IF needs_transpose THEN <<[stmt |-> "enqueue", op |-> "transpose",
                                      uses |-> {"buckets_1", "buckets_2"}]>>
            ELSE << >>)
        \o (IF offsets THEN <<[stmt |-> "enqueue", op |-> "phase_3",
                               uses |-> {"buckets_1", "counter"}],
                              [stmt |-> "enqueue", op |-> "memcpy",
                               uses |-> {"counter"}],
                              [stmt |-> "enqueue", op |-> "event", uses |-> {}]>>
            ELSE << >>)
        \o <<[stmt |-> "enqueue", op |-> "phase_4", uses |-> {"buckets_1"}]>>
        \o (IF offsets THEN <<[stmt |-> "synchronize"]>> ELSE << >>)
        \o <<[stmt |-> "free", buf |-> "buckets_1"]>>
        \o (IF needs_transpose THEN <<[stmt |-> "free", buf |-> "buckets_2"]>>
            ELSE << >>)
        \o <<[stmt |-> "free", buf |-> IF offsets THEN "counter" ELSE "nullptr"],
             [stmt |-> "return"]>>

\* The entries of the stream the device has completed when the event is
\* complete: all up to the cuEventRecord().
event_complete(c) ==
    \E i \in 1..c.executed : c.stream[i].op = "event"

\* The program: jit_mkperm(ptr, size, bucket_count, perm, offsets) on a
\* CUDA device, with or without an offsets table.
InitMkpermCuda ==
    /\ Start(1, 1, 1, 0, 0, 0, 0, 0, "unset")
    /\ PoolIdle
    /\ scan = [state |-> "none"]
    /\ RestIdle
    /\ \E size \in 0..1, bucket_count \in 0..MaxBuckets, block_count \in 1..MaxBlocks,
          warp_count \in 1..MaxWarps, shared_memory_bytes \in SharedBytes,
          offsets \in BOOLEAN :
        call = [state |-> "ready", prim |-> "mkperm_cuda", size |-> size,
                bucket_count |-> bucket_count, block_count |-> block_count,
                warp_count |-> warp_count,
                shared_memory_bytes |-> shared_memory_bytes, offsets |-> offsets,
                bucket_size_1 |-> 0, bucket_size_all |-> 0,
                statements |-> << >>, next |-> 1, stream |-> << >>, executed |-> 0,
                lock |-> "host", allocated |-> {}, freed |-> << >>,
                waited |-> "no", other |-> FALSE, read_after |-> 0, ret |-> "none"]

\* The host calls jitc_mkperm(): size 0 returns 0 at once, bucket_count 0
\* is a fatal error (jitc_fail), otherwise the variant is chosen.
CudaMkpermCall ==
    /\ call.state = "ready"
    /\ call.prim = "mkperm_cuda"
    /\ IF call.size = 0
       THEN call' = [call EXCEPT !.state = "returned", !.ret = "zero"]
       ELSE IF call.bucket_count = 0
       THEN call' = [call EXCEPT !.state = "failed"]
       ELSE LET v == mkperm_variant(call.bucket_count, call.block_count,
                                    call.warp_count, call.shared_memory_bytes)
                needs_transpose == v.bucket_size_1 # v.bucket_size_all
            IN  call' = [call EXCEPT
                    !.state = "running",
                    !.bucket_size_1 = v.bucket_size_1,
                    !.bucket_size_all = v.bucket_size_all,
                    !.statements = mkperm_statements(call.offsets, needs_transpose,
                                                     v.initialize_buckets)]
    /\ UNCHANGED <<mem, tasks, unit_done, released, scan, loopVars, restVars>>

\* The host, holding state.lock, runs the next statement of jitc_mkperm():
\* an allocation, an asynchronous call that appends to the stream, the
\* begin of the unlock_guard scope, a jitc_free(), or the return, which
\* reads the last row of the offsets table.
CudaMkpermStep ==
    /\ call.state = "running"
    /\ call.prim = "mkperm_cuda"
    /\ call.lock = "host"
    /\ LET s == call.statements[call.next]
           c == [call EXCEPT !.next = @ + 1]
       IN  call' =
             CASE s.stmt = "malloc" -> [c EXCEPT !.allocated = @ \cup {s.buf}]
               [] s.stmt = "enqueue" ->
                     [c EXCEPT !.stream = Append(@, [op |-> s.op, uses |-> s.uses])]
               [] s.stmt = "synchronize" ->
                     [c EXCEPT !.state = "synchronize", !.lock = "free"]
               [] s.stmt = "free" ->
                     IF s.buf = "nullptr" THEN c
                     ELSE [c EXCEPT !.allocated = @ \ {s.buf},
                                    !.freed = Append(@, [buf |-> s.buf,
                                                         enqueued |-> Len(c.stream)])]
               [] s.stmt = "return" ->
                     [c EXCEPT !.state = "returned",
                               !.read_after = IF c.offsets THEN c.executed ELSE 0,
                               !.ret = IF c.offsets THEN "offsets[4 * bucket_count]"
                                       ELSE "zero"]
    /\ UNCHANGED <<mem, tasks, unit_done, released, scan, loopVars, restVars>>

\* The device completes the oldest entry of the stream that is pending.
CudaStreamRun ==
    /\ call.state \in {"running", "synchronize", "returned"}
    /\ call.prim = "mkperm_cuda"
    /\ call.executed < Len(call.stream)
    /\ call' = [call EXCEPT !.executed = @ + 1]
    /\ UNCHANGED <<mem, tasks, unit_done, released, scan, loopVars, restVars>>

\* Another thread takes state.lock while the host waits for the event, and
\* gives it back.
CudaOtherThread ==
    /\ call.state \in {"running", "synchronize"}
    /\ call.prim = "mkperm_cuda"
    /\ call.lock # "host"
    /\ call' = [call EXCEPT !.lock = IF @ = "free" THEN "other" ELSE "free",
                            !.other = TRUE]
    /\ UNCHANGED <<mem, tasks, unit_done, released, scan, loopVars, restVars>>

\* cuEventSynchronize() returns once the event is complete; the end of the
\* unlock_guard scope takes state.lock again.
CudaEventSynchronize ==
    /\ call.state = "synchronize"
    /\ call.prim = "mkperm_cuda"
    /\ event_complete(call)
    /\ call.lock = "free"
    /\ call' = [call EXCEPT !.state = "running", !.lock = "host",
                            !.waited = "unlocked"]
    /\ UNCHANGED <<mem, tasks, unit_done, released, scan, loopVars, restVars>>

NextMkpermCuda ==
    \/ CudaMkpermCall
    \/ CudaMkpermStep
    \/ CudaStreamRun
    \/ CudaOtherThread
    \/ CudaEventSynchronize

\* One call of jit_mkperm() on a CUDA device, the stream and another thread.
SpecMkpermCuda == InitMkpermCuda /\ [][NextMkpermCuda]_vars

\* The operations of the stream from phase 1 on (the memsets come first).
StreamOrder ==
    LET kernels == SelectSeq(call.stream, LAMBDA e : e.op # "memset")
    IN  [i \in 1..Len(kernels) |-> kernels[i].op]

\* The stream order of a call with an offsets table whose histogram has
\* `rows` rows.
ExpectedOrder(rows) ==
    <<"phase_1">> \o (IF rows > 1 THEN <<"transpose">> ELSE << >>)
    \o <<"prefix_sum">> \o (IF rows > 1 THEN <<"transpose">> ELSE << >>)
    \o <<"phase_3", "memcpy", "event", "phase_4">>

\* C40: on the GPU path of mkperm with an offsets table the stream holds, in
\* this order, phase 1, a transpose iff the histogram has more than one row,
\* the exclusive scan, the transpose back under the same condition, phase 3,
\* the copy of the counter into the last offsets row, the event, phase 4;
\* the host reads the last offsets row only after it has waited for the
\* event with the global lock released, the copy being complete; and a
\* scratch buffer is released only after every entry of the stream that
\* uses it has been enqueued, the whole order being enqueued by then.
GpuStreamOrder ==
    (call.state # "none" /\ call.prim = "mkperm_cuda" /\ call.offsets
        /\ call.state \in {"running", "synchronize", "returned"} /\ call.size > 0) =>
        LET rows == call.bucket_size_all \div call.bucket_size_1
            expected == ExpectedOrder(rows)
            n == Len(call.stream)
        IN  /\ Len(StreamOrder) <= Len(expected)
            /\ \A i \in 1..Len(StreamOrder) : StreamOrder[i] = expected[i]
            /\ call.state = "returned" =>
                   /\ call.waited = "unlocked"
                   /\ \E i \in 1..call.read_after :
                          /\ call.stream[i].op = "event"
                          /\ call.stream[i - 1].op = "memcpy"
            /\ call.state = "synchronize" => call.lock # "host"
            /\ \A f \in 1..Len(call.freed) :
                   /\ Len(StreamOrder) = Len(expected)
                   /\ call.freed[f].enqueued = n
                   /\ \A i \in 1..n :
                          call.freed[f].buf \in call.stream[i].uses
                              => i <= call.freed[f].enqueued

\* A call with an offsets table and a histogram of several rows has
\* returned the last row while phase 4 was still pending on the device, and
\* another thread had taken the lock during the wait.
GpuMkpermReturnedEarly ==
    /\ call.state = "returned" /\ call.prim = "mkperm_cuda"
    /\ call.offsets /\ call.size > 0
    /\ call.bucket_size_all > call.bucket_size_1
    /\ call.read_after < Len(call.stream)
    /\ call.other
    /\ Len(call.freed) = 3

====
